---------------------------- MODULE Spec2Model ----------------------------
(***************************************************************************)
(* A model of Shopify/function-runner: the scale-limits analyzer, the      *)
(* engine's run procedure, module validation and provider classification,  *)
(* and the BytesContainer codec layer.                                     *)
(*                                                                         *)
(* Conventions.                                                            *)
(*  - Byte strings and Rust Strings are sequences of bytes (0..255).       *)
(*  - Option<T> is a sequence of length 0 (None) or 1 (Some).              *)
(*  - f64 scale rates are fixed-point integers in thousandths (0.005 is 5, *)
(*    1.0 is 1000, 10.0 is 10000); products and sums are then exact.       *)
(*  - A serde_json::Value is a record [t, v]: t is the variant tag and v   *)
(*    its payload.                                                         *)
(***************************************************************************)
EXTENDS Integers, Sequences, FiniteSets, TLC

VARIABLES
    \* ---- scale-limits analyzer (scale_limits_analyzer.rs)
    value_stack,    \* ScaleLimits.value_stack: Vec<Vec<&Value>>
    path_stack,     \* ScaleLimits.path_stack: Vec<&str>
    rates,          \* ScaleLimits.rates: HashMap<PathWithIndex, f64>
    todo,           \* field events the orchestrator has still to deliver
    query,          \* the whole event sequence of the query being analysed
    input,          \* the input JSON tree (extra_info)
    scale           \* Option<f64>: the analyzer output once into_output ran

avars == <<value_stack, path_stack, rates, todo, query, input, scale>>

VARIABLES
    \* ---- BytesContainer (container.rs)
    c_ty,           \* BytesContainerType of the call
    c_codec,        \* Codec of the call
    c_raw,          \* the bytes passed in
    c_src,          \* Option<Value>: the JSON value the bytes were rendered from
    c_result,       \* Option<Result<BytesContainer>>: what new returned
    c_again         \* Option<Result<BytesContainer>>: new(Input, ..) on the result's raw

cvars == <<c_ty, c_codec, c_raw, c_src, c_result, c_again>>

VARIABLES
    \* ---- engine::run (engine.rs)
    r_pc,           \* "start", "guest" (inside func.call), "called", "done"
    r_input,        \* FunctionRunParams.input
    r_stdout,       \* the bytes in output_stream
    r_stderr,       \* the bytes in error_stream
    r_mem,          \* MemoryLimiter.max_memory_bytes
    r_call,         \* Option: how func.call ended
    r_result        \* Option<Result<FunctionRunResult>>: what run returned

rvars == <<r_pc, r_input, r_stdout, r_stderr, r_mem, r_call, r_result>>

VARIABLES
    \* ---- provider classification (validated_module.rs, io.rs)
    p_name,         \* the name being classified
    p_provider,     \* Option<bool>: Provider::is_mem_io_provider
    p_io            \* Option<bool>: io::is_mem_io_provider

pvars == <<p_name, p_provider, p_io>>

VARIABLES
    \* ---- ValidatedModule::new (validated_module.rs)
    m_catalog,      \* the names StandardProviders holds
    m_imports,      \* module.imports(), the module name of each import
    m_result        \* Option<Result<ValidatedModule>>

mvars == <<m_catalog, m_imports, m_result>>

VARIABLES
    \* ---- MemoryLimiter installed on the store (engine.rs)
    l_pc,           \* "running" until run reads the high-water mark, then "measured"
    l_max,          \* MemoryLimiter.max_memory_bytes
    l_asked,        \* every `desired` memory_growing was called with
    l_answer,       \* Option: the last growth request and the limiter's answer
    l_memories,     \* linear memories the store holds
    l_instantiate,  \* Option: the last instantiation and whether it succeeded
    l_usage         \* Option: memory_usage as run reports it

lvars == <<l_pc, l_max, l_asked, l_answer, l_memories, l_instantiate, l_usage>>

VARIABLES
    \* ---- a run through the IOHandler (io.rs, engine.rs)
    h_pc,           \* the step the run is at
    h_module,       \* the guest: its imports and whether the catalog has them
    h_strategy,     \* IOHandler.strategy: "Wasi" or "Memory"
    h_fuel,         \* the store's fuel
    h_spent,        \* fuel the guest module consumed in its instantiation and call
    h_memory,       \* the provider's linear memory
    h_stdin,        \* Option: the bytes of the input pipe
    h_stdout,       \* the bytes of the output pipe
    h_stderr,       \* the bytes of the error pipe
    h_call,         \* Option: how the call of the export ended
    h_measured,     \* Option: instructions and module_result
    h_final,        \* Option: what the guest's finalize returned and left in memory
    h_io,           \* Option: the OutputAndLogs of IOHandler::finalize
    h_result,       \* Option: what run returned
    h_trace         \* the side effects so far, in order

hvars == <<h_pc, h_module, h_strategy, h_fuel, h_spent, h_memory, h_stdin, h_stdout,
           h_stderr, h_call, h_measured, h_final, h_io, h_result, h_trace>>

VARIABLES
    \* ---- the human-readable rendering (function_run_result.rs)
    d_result,       \* the FunctionRunResult
    d_color,        \* whether the terminal takes colors
    d_text          \* Option: what Display wrote

dvars == <<d_result, d_color, d_text>>

VARIABLES
    \* ---- LogStream (logs.rs)
    s_logs,             \* LogStream.logs
    s_capacity,         \* LogStream.capacity
    s_current_bytesize, \* LogStream.current_bytesize
    s_color,            \* whether the terminal takes colors
    s_last,             \* Option: the last append: its buffer's length, what it
                        \* returned and what became of the message
    s_kept,             \* bytes of guest text stored so far
    s_sentinels,        \* how many times the truncation sentinel was stored
    s_frozen            \* Option: the logs as they were when the sentinel was stored

svars == <<s_logs, s_capacity, s_current_bytesize, s_color, s_last, s_kept,
           s_sentinels, s_frozen>>

VARIABLES
    \* ---- the limit-enforcing MemoryLimiter (memory_limiter.rs)
    e_limit,        \* MemoryLimiter.linear_memory_limit_in_bytes
    e_current,      \* bytes of the linear memory the store holds
    e_asked,        \* Option: the last request made of the limiter
    e_answer        \* Option<bool>: what the limiter answered

evars == <<e_limit, e_current, e_asked, e_answer>>

VARIABLES
    \* ---- the run command (main.rs)
    g_pc,           \* where run is: "start", "prepared", "ran", "printed", "done"
    g_opts,         \* RunOpts, with what the files named in it hold
    g_color,        \* whether the terminal takes colors
    g_json_value,   \* Option<serde_json::Value>: json_value
    g_buffer,       \* the bytes handed to the engine
    g_analyzed,     \* whether analyze_schema_definition was called
    g_scale,        \* Option<f64>: scale_factor
    g_result,       \* Option: the FunctionRunResult engine_run returned
    g_stdout,       \* Option: what run printed
    g_exit          \* Option: the exit status of the process and its error message

gvars == <<g_pc, g_opts, g_color, g_json_value, g_buffer, g_analyzed, g_scale, g_result,
           g_stdout, g_exit>>

VARIABLES
    \* ---- the test command (main.rs) and its TestReport (test_report.rs)
    t_pc,           \* where test is: "start", "running", "reporting", "done"
    t_opts,         \* TestOpts, with the number of files in the input directory
    t_todo,         \* how many test cases are still to run
    t_successes,    \* TestReport.successes
    t_failures,     \* TestReport.failures
    t_calls,        \* the calls made on the report, with the case each was made for
    t_result        \* Option: what test returned, with the counts into_result printed

tvars == <<t_pc, t_opts, t_todo, t_successes, t_failures, t_calls, t_result>>

VARIABLES
    \* ---- IOHandler as an object (io.rs), after ValidatedModule::new
    k_pc,           \* "module", "validated", "created", "initialized", "done"
    k_catalog,      \* the names the embedded providers/ folder holds
    k_imports,      \* the module name of each import of the guest, in order
    k_std_import,   \* Option: ValidatedModule.std_import
    k_strategy,     \* IOHandler.strategy: "Wasi" or "Memory"
    k_instance,     \* Option: the provider instance the Memory strategy holds
    k_linked,       \* the providers instantiated and linked, in order
    k_initialize,   \* Option: what initialize returned
    k_finalize      \* Option: what finalize returned, or that it panicked

kvars == <<k_pc, k_catalog, k_imports, k_std_import, k_strategy, k_instance, k_linked,
           k_initialize, k_finalize>>

vars == <<avars, cvars, rvars, pvars, mvars, lvars, hvars, dvars, svars, evars, gvars, tvars, kvars>>

-----------------------------------------------------------------------------
(* Generic helpers *)

None == <<>>
Some(x) == <<x>>
IsSome(o) == Len(o) = 1
Unwrap(o) == o[1]

Max(a, b) == IF a >= b THEN a ELSE b
Min(a, b) == IF a <= b THEN a ELSE b

Rep(x, n) == [i \in 1..n |-> x]

RECURSIVE Flatten(_)
Flatten(ss) == IF ss = <<>> THEN <<>> ELSE Head(ss) \o Flatten(Tail(ss))

SeqsUpTo(S, n) == UNION {[1..k -> S] : k \in 0..n}

-----------------------------------------------------------------------------
(* serde_json::Value *)

JNull == [t |-> "null", v |-> 0]
JBool(b) == [t |-> "bool", v |-> b]
JNum(n) == [t |-> "num", v |-> n]
JStr(s) == [t |-> "str", v |-> s]
JArr(a) == [t |-> "arr", v |-> a]
JObj(f) == [t |-> "obj", v |-> f]

EmptyMap == <<>>
MapOf(k, x) == [kk \in {k} |-> x]

\* serde_json::Map::get
MapGet(m, k) == IF k \in DOMAIN m THEN Some(m[k]) ELSE None

-----------------------------------------------------------------------------
(* Scale-limits analyzer *)

MIN_SCALE_FACTOR == 1000
MAX_SCALE_FACTOR == 10000

\* The key of a rates entry.
PathWithIndex(path, index) == [path |-> path, index |-> index]

\* match value { Value::Object(object) => object.get(key), _ => None }
ValueForField(value, key) ==
    IF value.t = "obj" THEN MapGet(value.v, key) ELSE None

LengthOfAtLeastOne(value_for_field) ==
    IF IsSome(value_for_field) /\ Unwrap(value_for_field).t \in {"str", "arr"}
    THEN Max(1, Len(Unwrap(value_for_field).v))
    ELSE 1

\* match value_for_field { String(s) => s.len(), Array(arr) => arr.len(), _ => 1 }
LengthOf(value_for_field) ==
    IF IsSome(value_for_field) /\ Unwrap(value_for_field).t \in {"str", "arr"}
    THEN Len(Unwrap(value_for_field).v)
    ELSE 1

\* let increment = length as f64 * rate
Increment(value_for_field, rate) == LengthOf(value_for_field) * rate

EntryUpdateSum(entry, increment) == entry + increment

\* *entry = entry.max(increment)
EntryUpdate(entry, increment) == Max(entry, increment)

\* self.rates.entry(path_with_index).or_default()
EntryOrDefault(rs, k) == IF k \in DOMAIN rs THEN rs[k] ELSE 0

\* The values one parent adds to nested_values.
NestedOf(value_for_field) ==
    IF ~IsSome(value_for_field) THEN <<>>
    ELSE IF Unwrap(value_for_field).t = "arr" THEN Unwrap(value_for_field).v
    ELSE <<Unwrap(value_for_field)>>

\* The rates map after the for_each of visit_field over the parent values.
RatesAfterVisit(rs, values, path, key, rate) ==
    IF ~IsSome(rate) THEN rs
    ELSE LET new == {PathWithIndex(path, i - 1) : i \in 1..Len(values)}
         IN  [k \in DOMAIN rs \cup new |->
                IF k \in new
                THEN EntryUpdate(EntryOrDefault(rs, k),
                                 Increment(ValueForField(values[k.index + 1], key),
                                           Unwrap(rate)))
                ELSE rs[k]]

\* nested_values after the for_each of visit_field.
NestedValues(values, key) ==
    Flatten([i \in 1..Len(values) |-> NestedOf(ValueForField(values[i], key))])

\* ScaleLimits::new
NewScaleLimits(extra_info) ==
    [value_stack |-> <<<<extra_info>>>>, path_stack |-> <<>>, rates |-> EmptyMap]

\* ScaleLimits::visit_field
VisitField(s, key, rate) ==
    LET path == Append(s.path_stack, key)
        values == s.value_stack[Len(s.value_stack)]
    IN  [value_stack |-> Append(s.value_stack, NestedValues(values, key)),
         path_stack  |-> path,
         rates       |-> RatesAfterVisit(s.rates, values, path, key, rate)]

LeaveFieldKeepsValues(s) ==
    [value_stack |-> s.value_stack,
     path_stack  |-> SubSeq(s.path_stack, 1, Len(s.path_stack) - 1),
     rates       |-> s.rates]

\* ScaleLimits::leave_field
LeaveField(s) ==
    [value_stack |-> SubSeq(s.value_stack, 1, Len(s.value_stack) - 1),
     path_stack  |-> SubSeq(s.path_stack, 1, Len(s.path_stack) - 1),
     rates       |-> s.rates]

RECURSIVE SumOver(_, _)
SumOver(S, f) ==
    IF S = {} THEN 0
    ELSE LET x == CHOOSE y \in S : TRUE IN f[x] + SumOver(S \ {x}, f)

RECURSIVE MaxOver(_, _)
MaxOver(S, f) ==
    IF S = {} THEN 0
    ELSE LET x == CHOOSE y \in S : TRUE IN Max(f[x], MaxOver(S \ {x}, f))

GroupByMax(rs, path) == MaxOver({k \in DOMAIN rs : k.path = path}, rs)

\* What the first fold of into_output leaves in normalized_rates[path].
GroupRate(rs, path) == SumOver({k \in DOMAIN rs : k.path = path}, rs)

\* The first fold of into_output.
NormalizedRates(rs) ==
    [p \in {k.path : k \in DOMAIN rs} |-> GroupRate(rs, p)]

RECURSIVE FoldMax(_, _, _)
FoldMax(S, f, acc) ==
    IF S = {} THEN acc
    ELSE LET x == CHOOSE y \in S : TRUE IN FoldMax(S \ {x}, f, Max(acc, f[x]))

\* normalized_rates.into_values().fold(MIN_SCALE_FACTOR, f64::max)
RawMaximum(rs) ==
    LET n == NormalizedRates(rs) IN FoldMax(DOMAIN n, n, MIN_SCALE_FACTOR)

\* f64::clamp
Clamp(x, lo, hi) == IF x < lo THEN lo ELSE IF x > hi THEN hi ELSE x

IntoOutputUnclamped(rs) == RawMaximum(rs)

\* ScaleLimits::into_output
IntoOutput(rs) == Clamp(RawMaximum(rs), MIN_SCALE_FACTOR, MAX_SCALE_FACTOR)

(* The orchestrator's traversal, as the sequence of visitor calls it makes. *)
Visit(key, rate) == [op |-> "visit", key |-> key, rate |-> rate]
Leave(key) == [op |-> "leave", key |-> key, rate |-> None]

\* One field with its sub-selection: visit_field, the sub-selection, leave_field.
Field(key, rate, sub) == <<Visit(key, rate)>> \o sub \o <<Leave(key)>>

\* The whole analysis as a function: ScaleLimitsAnalyzer::analyze.
RECURSIVE Traverse(_, _)
Traverse(s, events) ==
    IF events = <<>> THEN s
    ELSE LET e == Head(events)
         IN  Traverse(IF e.op = "visit" THEN VisitField(s, e.key, e.rate)
                      ELSE LeaveField(s),
                      Tail(events))

Analyze(events, extra_info) ==
    IntoOutput(Traverse(NewScaleLimits(extra_info), events).rates)

-----------------------------------------------------------------------------
(* Bytes, UTF-8 and decimal formatting *)

IsWs(c) == c \in {32, 10, 13, 9}
IsDigit(c) == c >= 48 /\ c <= 57
IsCont(c) == c >= 128 /\ c <= 191
IsLead2(c) == c >= 194 /\ c <= 223

\* core::str::from_utf8(..).is_ok(), for one- and two-byte encodings
RECURSIVE Utf8Valid(_)
Utf8Valid(b) ==
    IF b = <<>> THEN TRUE
    ELSE IF b[1] < 128 THEN Utf8Valid(Tail(b))
    ELSE IF IsLead2(b[1]) /\ Len(b) >= 2 /\ IsCont(b[2]) THEN Utf8Valid(Tail(Tail(b)))
    ELSE FALSE

\* U+FFFD REPLACEMENT CHARACTER
Replacement == <<239, 191, 189>>

\* String::from_utf8_lossy, for one- and two-byte encodings
RECURSIVE Lossy(_)
Lossy(b) ==
    IF b = <<>> THEN <<>>
    ELSE IF b[1] < 128 THEN <<b[1]>> \o Lossy(Tail(b))
    ELSE IF IsLead2(b[1]) /\ Len(b) >= 2 /\ IsCont(b[2])
         THEN <<b[1], b[2]>> \o Lossy(Tail(Tail(b)))
    ELSE Replacement \o Lossy(Tail(b))

\* Display of an unsigned integer
RECURSIVE Digits(_)
Digits(n) == IF n < 10 THEN <<48 + n>> ELSE Digits(n \div 10) \o <<48 + (n % 10)>>

\* Display of a signed integer
Decimal(n) == IF n < 0 THEN <<45>> \o Digits(0 - n) ELSE Digits(n)

HexDigit(n) == IF n < 10 THEN 48 + n ELSE 87 + n

\* format!("{:02x}", b)
Hex2(b) == <<HexDigit(b \div 16), HexDigit(b % 16)>>

\* [..].join(sep)
RECURSIVE Join(_, _)
Join(parts, sep) ==
    IF parts = <<>> THEN <<>>
    ELSE IF Len(parts) = 1 THEN parts[1]
    ELSE parts[1] \o sep \o Join(Tail(parts), sep)

\* Ord for byte strings (the order of BTreeMap<String, Value> keys)
RECURSIVE LexLess(_, _)
LexLess(a, b) ==
    IF b = <<>> THEN FALSE
    ELSE IF a = <<>> THEN TRUE
    ELSE IF a[1] # b[1] THEN a[1] < b[1]
    ELSE LexLess(Tail(a), Tail(b))

\* The keys of a serde_json::Map in iteration order
RECURSIVE SortedKeys(_)
SortedKeys(S) ==
    IF S = {} THEN <<>>
    ELSE LET k == CHOOSE x \in S : \A y \in S \ {x} : LexLess(x, y)
         IN  <<k>> \o SortedKeys(S \ {k})

\* Map::insert
MapInsert(m, k, x) == [kk \in DOMAIN m \cup {k} |-> IF kk = k THEN x ELSE m[kk]]

-----------------------------------------------------------------------------
(* serde_json: from_slice, to_vec, to_string_pretty.  The grammar covered is   *)
(* null, true, false, unsigned integers, strings without escapes, arrays and   *)
(* objects; the byte strings the model draws stay inside it.                   *)

Fail == [ok |-> FALSE, val |-> JNull, pos |-> 0]
Parsed(val, pos) == [ok |-> TRUE, val |-> val, pos |-> pos]

RECURSIVE SkipWs(_, _)
SkipWs(b, i) == IF i <= Len(b) /\ IsWs(b[i]) THEN SkipWs(b, i + 1) ELSE i

StartsAt(b, i, word) ==
    /\ i + Len(word) - 1 <= Len(b)
    /\ SubSeq(b, i, i + Len(word) - 1) = word

WordNull == <<110, 117, 108, 108>>
WordTrue == <<116, 114, 117, 101>>
WordFalse == <<102, 97, 108, 115, 101>>

\* The index of the closing quote of a string whose content starts at i, or 0.
RECURSIVE ClosingQuote(_, _)
ClosingQuote(b, i) ==
    IF i > Len(b) THEN 0
    ELSE IF b[i] = 34 THEN i
    ELSE IF b[i] < 32 \/ b[i] = 92 THEN 0
    ELSE ClosingQuote(b, i + 1)

\* Deserializer::parse_str: b[i] is the opening quote
ParseString(b, i) ==
    LET q == ClosingQuote(b, i + 1)
    IN  IF q = 0 THEN Fail
        ELSE IF ~Utf8Valid(SubSeq(b, i + 1, q - 1)) THEN Fail
        ELSE Parsed(JStr(SubSeq(b, i + 1, q - 1)), q + 1)

RECURSIVE DigitRun(_, _, _)
DigitRun(b, i, acc) ==
    IF i <= Len(b) /\ IsDigit(b[i]) THEN DigitRun(b, i + 1, acc * 10 + (b[i] - 48))
    ELSE Parsed(JNum(acc), i)

\* Deserializer::parse_integer: a leading 0 may not be followed by a digit
ParseNumber(b, i) ==
    IF b[i] = 48
    THEN IF i + 1 <= Len(b) /\ IsDigit(b[i + 1]) THEN Fail ELSE Parsed(JNum(0), i + 1)
    ELSE DigitRun(b, i, 0)

RECURSIVE ParseValue(_, _), ParseElems(_, _, _), ParseMembers(_, _, _)

\* Deserializer::deserialize_any into Value
ParseValue(b, i) ==
    LET j == SkipWs(b, i)
    IN  IF j > Len(b) THEN Fail
        ELSE IF b[j] = 110 THEN (IF StartsAt(b, j, WordNull) THEN Parsed(JNull, j + 4) ELSE Fail)
        ELSE IF b[j] = 116 THEN (IF StartsAt(b, j, WordTrue) THEN Parsed(JBool(TRUE), j + 4) ELSE Fail)
        ELSE IF b[j] = 102 THEN (IF StartsAt(b, j, WordFalse) THEN Parsed(JBool(FALSE), j + 5) ELSE Fail)
        ELSE IF b[j] = 34 THEN ParseString(b, j)
        ELSE IF IsDigit(b[j]) THEN ParseNumber(b, j)
        ELSE IF b[j] = 91
             THEN LET k == SkipWs(b, j + 1)
                  IN  IF k > Len(b) THEN Fail
                      ELSE IF b[k] = 93 THEN Parsed(JArr(<<>>), k + 1)
                      ELSE ParseElems(b, k, <<>>)
        ELSE IF b[j] = 123
             THEN LET k == SkipWs(b, j + 1)
                  IN  IF k > Len(b) THEN Fail
                      ELSE IF b[k] = 125 THEN Parsed(JObj(EmptyMap), k + 1)
                      ELSE ParseMembers(b, k, EmptyMap)
        ELSE Fail

\* SeqAccess::next_element until the closing bracket
ParseElems(b, i, acc) ==
    LET r == ParseValue(b, i)
        k == SkipWs(b, r.pos)
    IN  IF ~r.ok \/ k > Len(b) THEN Fail
        ELSE IF b[k] = 44 THEN ParseElems(b, k + 1, Append(acc, r.val))
        ELSE IF b[k] = 93 THEN Parsed(JArr(Append(acc, r.val)), k + 1)
        ELSE Fail

\* MapAccess::next_entry until the closing brace; a repeated key overwrites
ParseMembers(b, i, m) ==
    LET k == SkipWs(b, i)
    IN  IF k > Len(b) \/ b[k] # 34 THEN Fail
        ELSE LET key == ParseString(b, k)
                 c == SkipWs(b, key.pos)
             IN  IF ~key.ok \/ c > Len(b) \/ b[c] # 58 THEN Fail
                 ELSE LET r == ParseValue(b, c + 1)
                          e == SkipWs(b, r.pos)
                      IN  IF ~r.ok \/ e > Len(b) THEN Fail
                          ELSE IF b[e] = 44
                               THEN ParseMembers(b, e + 1, MapInsert(m, key.val.v, r.val))
                          ELSE IF b[e] = 125
                               THEN Parsed(JObj(MapInsert(m, key.val.v, r.val)), e + 1)
                          ELSE Fail

\* serde_json::from_slice::<Value>: one value, then only whitespace
FromSlice(b) ==
    LET r == ParseValue(b, 1)
    IN  IF r.ok /\ SkipWs(b, r.pos) > Len(b) THEN r ELSE Fail

\* format_escaped_str_contents, for the quote and the backslash
RECURSIVE Escaped(_)
Escaped(s) ==
    IF s = <<>> THEN <<>>
    ELSE (IF s[1] \in {34, 92} THEN <<92, s[1]>> ELSE <<s[1]>>) \o Escaped(Tail(s))

Quoted(s) == <<34>> \o Escaped(s) \o <<34>>

Scalar(x) ==
    IF x.t = "null" THEN WordNull
    ELSE IF x.t = "bool" THEN (IF x.v THEN WordTrue ELSE WordFalse)
    ELSE IF x.t = "num" THEN Decimal(x.v)
    ELSE Quoted(x.v)

\* serde_json::to_vec: the compact formatter
RECURSIVE ToVec(_)
ToVec(x) ==
    IF x.t = "arr"
    THEN <<91>> \o Join([i \in 1..Len(x.v) |-> ToVec(x.v[i])], <<44>>) \o <<93>>
    ELSE IF x.t = "obj"
    THEN LET ks == SortedKeys(DOMAIN x.v)
         IN  <<123>>
                \o Join([i \in 1..Len(ks) |-> Quoted(ks[i]) \o <<58>> \o ToVec(x.v[ks[i]])],
                        <<44>>)
                \o <<125>>
    ELSE Scalar(x)

Indent(n) == Rep(32, 2 * n)

\* serde_json::to_string_pretty: the PrettyFormatter with a two-space indent
RECURSIVE Pretty(_, _)
Pretty(x, n) ==
    IF x.t = "arr"
    THEN IF x.v = <<>> THEN <<91, 93>>
         ELSE <<91, 10>>
                \o Join([i \in 1..Len(x.v) |-> Indent(n + 1) \o Pretty(x.v[i], n + 1)],
                        <<44, 10>>)
                \o <<10>> \o Indent(n) \o <<93>>
    ELSE IF x.t = "obj"
    THEN IF DOMAIN x.v = {} THEN <<123, 125>>
         ELSE LET ks == SortedKeys(DOMAIN x.v)
              IN  <<123, 10>>
                    \o Join([i \in 1..Len(ks) |->
                                Indent(n + 1) \o Quoted(ks[i]) \o <<58, 32>>
                                    \o Pretty(x.v[ks[i]], n + 1)],
                            <<44, 10>>)
                    \o <<10>> \o Indent(n) \o <<125>>
    ELSE Scalar(x)

ToStringPretty(x) == Pretty(x, 0)

-----------------------------------------------------------------------------
(* rmp_serde: to_vec and decode::from_slice of a Value.  The formats covered   *)
(* are nil, bool, fixint, uint 8, fixstr, fixarray and fixmap.                 *)

RECURSIVE MpEncode(_)
MpEncode(x) ==
    IF x.t = "null" THEN <<192>>
    ELSE IF x.t = "bool" THEN (IF x.v THEN <<195>> ELSE <<194>>)
    ELSE IF x.t = "num"
         THEN (IF x.v < 0 THEN <<256 + x.v>> ELSE IF x.v < 128 THEN <<x.v>> ELSE <<204, x.v>>)
    ELSE IF x.t = "str" THEN <<160 + Len(x.v)>> \o x.v
    ELSE IF x.t = "arr"
         THEN <<144 + Len(x.v)>> \o Flatten([i \in 1..Len(x.v) |-> MpEncode(x.v[i])])
    ELSE LET ks == SortedKeys(DOMAIN x.v)
         IN  <<128 + Len(ks)>>
                \o Flatten([i \in 1..Len(ks) |->
                                <<160 + Len(ks[i])>> \o ks[i] \o MpEncode(x.v[ks[i]])])

\* A str: valid UTF-8 of the announced length, else the visitor is handed bytes
\* and the Value visitor refuses them.
MpString(b, i) ==
    LET n == b[i] - 160
    IN  IF i + n > Len(b) THEN Fail
        ELSE IF ~Utf8Valid(SubSeq(b, i + 1, i + n)) THEN Fail
        ELSE Parsed(JStr(SubSeq(b, i + 1, i + n)), i + n + 1)

IsFixStr(c) == c >= 160 /\ c <= 191

RECURSIVE MpDecode(_, _), MpElems(_, _, _, _), MpEntries(_, _, _, _)

\* Deserializer::deserialize_any into Value
MpDecode(b, i) ==
    IF i > Len(b) THEN Fail
    ELSE IF b[i] < 128 THEN Parsed(JNum(b[i]), i + 1)
    ELSE IF b[i] < 144 THEN MpEntries(b, i + 1, b[i] - 128, EmptyMap)
    ELSE IF b[i] < 160 THEN MpElems(b, i + 1, b[i] - 144, <<>>)
    ELSE IF IsFixStr(b[i]) THEN MpString(b, i)
    ELSE IF b[i] = 192 THEN Parsed(JNull, i + 1)
    ELSE IF b[i] = 194 THEN Parsed(JBool(FALSE), i + 1)
    ELSE IF b[i] = 195 THEN Parsed(JBool(TRUE), i + 1)
    ELSE IF b[i] = 204
         THEN (IF i + 1 > Len(b) THEN Fail ELSE Parsed(JNum(b[i + 1]), i + 2))
    ELSE IF b[i] >= 224 THEN Parsed(JNum(b[i] - 256), i + 1)
    ELSE Fail

MpElems(b, i, n, acc) ==
    IF n = 0 THEN Parsed(JArr(acc), i)
    ELSE LET r == MpDecode(b, i)
         IN  IF ~r.ok THEN Fail ELSE MpElems(b, r.pos, n - 1, Append(acc, r.val))

\* A map key must be a str: KeyClassifier accepts nothing else
MpEntries(b, i, n, m) ==
    IF n = 0 THEN Parsed(JObj(m), i)
    ELSE IF i > Len(b) \/ ~IsFixStr(b[i]) THEN Fail
    ELSE LET key == MpString(b, i)
             r == MpDecode(b, key.pos)
         IN  IF ~key.ok \/ ~r.ok THEN Fail
             ELSE MpEntries(b, r.pos, n - 1, MapInsert(m, key.val.v, r.val))

\* rmp_serde::decode::from_slice::<Value>: one value; what follows it is not read
MpFromSlice(b) == MpDecode(b, 1)

-----------------------------------------------------------------------------
(* BytesContainer *)

\* "<raw codec>"
RawCodecText == <<60, 114, 97, 119, 32, 99, 111, 100, 101, 99, 62>>

\* impl Default for BytesContainer
DefaultContainer ==
    [raw |-> <<>>, codec |-> "Raw", json_value |-> None, humanized |-> RawCodecText,
     encoding_error |-> None]

Ok(c) == [ok |-> TRUE, c |-> c, err |-> ""]
Err(e) == [ok |-> FALSE, c |-> DefaultContainer, err |-> e]

\* raw.iter().map(|b| format!("{:02x}", b)).collect::<Vec<String>>().join(" ")
HexDump(raw) == Join([i \in 1..Len(raw) |-> Hex2(raw[i])], <<32>>)

InputJsonRawKept(raw, json) == raw

\* The raw field of a JSON Input container: the minified buffer
InputJsonRaw(raw, json) == ToVec(json)

OutputErrorRawKept(raw) == raw

\* The raw field of an Output container whose bytes did not decode: it is never
\* assigned, so it keeps the default
OutputErrorRaw(raw) == DefaultContainer.raw

OutputErrorKeepsJson(codec, raw, e) ==
    [DefaultContainer EXCEPT !.codec = codec,
                             !.humanized = Lossy(raw),
                             !.json_value = Some(JNull),
                             !.encoding_error = Some(e)]

\* The Err arm of an Output container
OutputError(codec, raw, e) ==
    [DefaultContainer EXCEPT !.codec = codec,
                             !.raw = OutputErrorRaw(raw),
                             !.humanized = Lossy(raw),
                             !.encoding_error = Some(e)]

\* BytesContainer::new
BytesContainerNew(ty, codec, raw) ==
    IF codec = "Raw"
    THEN Ok([DefaultContainer EXCEPT !.raw = raw, !.codec = codec, !.humanized = HexDump(raw)])
    ELSE IF codec = "Json"
    THEN LET json == FromSlice(raw)
         IN  IF ty = "Input"
             THEN IF ~json.ok THEN Err("Invalid input JSON")
                  ELSE Ok([codec |-> codec,
                           raw |-> InputJsonRaw(raw, json.val),
                           json_value |-> Some(json.val),
                           humanized |-> ToStringPretty(json.val),
                           encoding_error |-> None])
             ELSE IF json.ok
                  THEN Ok([DefaultContainer EXCEPT !.codec = codec,
                                                   !.json_value = Some(json.val),
                                                   !.humanized = ToStringPretty(json.val),
                                                   !.raw = ToVec(json.val)])
                  ELSE Ok(OutputError(codec, raw, "json error"))
    ELSE IF ty = "Input"
         THEN LET json == FromSlice(raw)
              IN  IF ~json.ok THEN Err("Invalid input JSON")
                  ELSE Ok([raw |-> MpEncode(json.val),
                           codec |-> codec,
                           json_value |-> Some(json.val),
                           humanized |-> ToStringPretty(json.val),
                           encoding_error |-> None])
         ELSE LET value == MpFromSlice(raw)
              IN  IF value.ok
                  THEN Ok([DefaultContainer EXCEPT !.codec = codec,
                                                   !.json_value = Some(value.val),
                                                   !.humanized = ToStringPretty(value.val),
                                                   !.raw = raw])
                  ELSE Ok(OutputError(codec, raw, "messagepack error"))

-----------------------------------------------------------------------------
(* The analyzer's inputs: schemas with their queries, and input documents *)

MaxParents == 2     \* longest array of parent objects
MaxLen == 2         \* longest string or array under a scaling field

KeyA == <<97>>
KeyB == <<98>>

\* Option<f64> rates a field definition can carry: none, -0.5, 0.5, 6.0
Rates == {None, Some(-500), Some(500), Some(6000)}

Leaves ==
    {JNull, JNum(7)}
        \cup {JStr(Rep(97, m)) : m \in 0..MaxLen}
        \cup {JArr(Rep(JStr(<<97>>), m)) : m \in 0..MaxLen}

Parents == {JObj(MapOf(KeyA, z)) : z \in Leaves} \cup {JObj(EmptyMap), JNull}

MixedParents ==
    {JObj(MapOf(KeyA, JStr(Rep(97, MaxLen)))), JObj(MapOf(KeyA, JArr(<<JNum(7)>>))),
     JObj(MapOf(KeyA, JNum(7))), JObj(EmptyMap)}

ParentArrays ==
    {JArr(Rep(p, n)) : p \in Parents, n \in 0..MaxParents}
        \cup {JArr(a) : a \in SeqsUpTo(MixedParents, MaxParents)}

Inputs ==
    {JObj(MapOf(KeyA, x)) : x \in Leaves \cup Parents \cup ParentArrays}
        \cup {JNull, JObj(EmptyMap)}

\* { a }   { a a }   { a { a } }   { a { a a } }   { a { a } a { a } }   { a b }
Single(r) == Field(KeyA, r, <<>>)
Nested(r1, r2) == Field(KeyA, r1, Field(KeyA, r2, <<>>))
NestedTwice(r1, r2) == Field(KeyA, r1, Field(KeyA, r2, <<>>) \o Field(KeyA, r2, <<>>))

Queries ==
    {Single(r) : r \in Rates}
        \cup {Single(r) \o Single(r) : r \in Rates}
        \cup {Nested(r1, r2) : r1 \in Rates, r2 \in Rates}
        \cup {NestedTwice(r1, r2) : r1 \in Rates, r2 \in Rates}
        \cup {Nested(r1, r2) \o Nested(r1, r2) : r1 \in Rates, r2 \in Rates}
        \cup {Single(r1) \o Field(KeyB, r2, <<>>) : r1 \in Rates, r2 \in Rates}

-----------------------------------------------------------------------------
(* The analysis as a state machine *)

AnalyzerState == [value_stack |-> value_stack, path_stack |-> path_stack, rates |-> rates]

SetAnalyzerState(s) ==
    /\ value_stack' = s.value_stack
    /\ path_stack' = s.path_stack
    /\ rates' = s.rates

\* No limit-enforcing limiter exists.
EnforcingIdle ==
    /\ e_limit = 0
    /\ e_current = 0
    /\ e_asked = None
    /\ e_answer = None

\* No command is running.
CliIdle ==
    /\ g_pc = "idle"
    /\ g_opts = <<>>
    /\ g_color = FALSE
    /\ g_json_value = None
    /\ g_buffer = <<>>
    /\ g_analyzed = FALSE
    /\ g_scale = None
    /\ g_result = None
    /\ g_stdout = None
    /\ g_exit = None

\* No test command is running.
TestIdle ==
    /\ t_pc = "idle"
    /\ t_opts = <<>>
    /\ t_todo = 0
    /\ t_successes = 0
    /\ t_failures = <<>>
    /\ t_calls = <<>>
    /\ t_result = None

\* No IOHandler exists.
HandlerIdle ==
    /\ k_pc = "idle"
    /\ k_catalog = {}
    /\ k_imports = <<>>
    /\ k_std_import = None
    /\ k_strategy = "Wasi"
    /\ k_instance = None
    /\ k_linked = <<>>
    /\ k_initialize = None
    /\ k_finalize = None

\* No log stream exists.
LogStreamIdle ==
    /\ s_logs = <<>>
    /\ s_capacity = 0
    /\ s_current_bytesize = 0
    /\ s_color = FALSE
    /\ s_last = None
    /\ s_kept = 0
    /\ s_sentinels = 0
    /\ s_frozen = None

\* Nothing is being rendered.
DisplayIdle ==
    /\ d_result = JNull
    /\ d_color = FALSE
    /\ d_text = None

\* No run through the IOHandler is in progress.
HarnessIdle ==
    /\ h_pc = "idle"
    /\ h_module = [imports |-> <<>>, provided |-> FALSE]
    /\ h_strategy = "Wasi"
    /\ h_fuel = 0
    /\ h_spent = 0
    /\ h_memory = <<>>
    /\ h_stdin = None
    /\ h_stdout = <<>>
    /\ h_stderr = <<>>
    /\ h_call = None
    /\ h_measured = None
    /\ h_final = None
    /\ h_io = None
    /\ h_result = None
    /\ h_trace = <<>>

\* No store has a limiter installed.
LimiterIdle ==
    /\ l_pc = "idle"
    /\ l_max = 0
    /\ l_asked = {}
    /\ l_answer = None
    /\ l_memories = 0
    /\ l_instantiate = None
    /\ l_usage = None

\* No name is being classified.
ProviderIdle ==
    /\ p_name = <<>>
    /\ p_provider = None
    /\ p_io = None

\* No module is being validated.
ModuleIdle ==
    /\ m_catalog = {}
    /\ m_imports = <<>>
    /\ m_result = None

\* No run is in progress.
RunIdle ==
    /\ r_pc = "idle"
    /\ r_input = DefaultContainer
    /\ r_stdout = <<>>
    /\ r_stderr = <<>>
    /\ r_mem = 0
    /\ r_call = None
    /\ r_result = None

\* No container is being built.
ContainerIdle ==
    /\ c_ty = "Input"
    /\ c_codec = "Raw"
    /\ c_raw = <<>>
    /\ c_src = None
    /\ c_result = None
    /\ c_again = None

\* BluejaySchemaAnalyzer::analyze_schema_definition up to ScaleLimits::new
InitAnalyzer ==
    /\ HandlerIdle
    /\ TestIdle
    /\ CliIdle
    /\ EnforcingIdle
    /\ LogStreamIdle
    /\ DisplayIdle
    /\ HarnessIdle
    /\ LimiterIdle
    /\ ProviderIdle
    /\ ModuleIdle
    /\ ContainerIdle
    /\ RunIdle
    /\ query \in Queries
    /\ input \in Inputs
    /\ todo = query
    /\ value_stack = NewScaleLimits(input).value_stack
    /\ path_stack = NewScaleLimits(input).path_stack
    /\ rates = NewScaleLimits(input).rates
    /\ scale = None

AnalyzerVisitField ==
    /\ todo # <<>>
    /\ Head(todo).op = "visit"
    /\ SetAnalyzerState(VisitField(AnalyzerState, Head(todo).key, Head(todo).rate))
    /\ todo' = Tail(todo)
    /\ UNCHANGED <<query, input, scale, cvars, rvars, pvars, mvars, lvars, hvars, dvars, svars, evars, gvars, tvars, kvars>>

AnalyzerLeaveField ==
    /\ todo # <<>>
    /\ Head(todo).op = "leave"
    /\ SetAnalyzerState(LeaveField(AnalyzerState))
    /\ todo' = Tail(todo)
    /\ UNCHANGED <<query, input, scale, cvars, rvars, pvars, mvars, lvars, hvars, dvars, svars, evars, gvars, tvars, kvars>>

AnalyzerIntoOutput ==
    /\ todo = <<>>
    /\ scale = None
    /\ scale' = Some(IntoOutput(rates))
    /\ UNCHANGED <<value_stack, path_stack, rates, todo, query, input, cvars, rvars, pvars, mvars, lvars, hvars, dvars, svars, evars, gvars, tvars, kvars>>

NextAnalyzer ==
    \/ AnalyzerVisitField
    \/ AnalyzerLeaveField
    \/ AnalyzerIntoOutput

SpecAnalyzer == InitAnalyzer /\ [][NextAnalyzer]_vars

-----------------------------------------------------------------------------
(* Claims about the analyzer *)

AnalysisDone == IsSome(scale)

NoRateVisited == \A i \in 1..Len(query) : ~IsSome(query[i].rate)

\* C1: the scale factor the analyzer returns lies in [1.0, 10.0]; it is exactly
\* 1.0 when no visited field carries a rate, and exactly 10.0 when the maximum
\* over the per-path sums is above 10.0.
C1_ScaleFactorClamped ==
    AnalysisDone =>
        /\ Unwrap(scale) >= MIN_SCALE_FACTOR
        /\ Unwrap(scale) <= MAX_SCALE_FACTOR
        /\ (NoRateVisited => Unwrap(scale) = MIN_SCALE_FACTOR)
        /\ (RawMaximum(rates) > MAX_SCALE_FACTOR => Unwrap(scale) = MAX_SCALE_FACTOR)

C1_Witness ==
    /\ AnalysisDone
    /\ RawMaximum(rates) > MAX_SCALE_FACTOR
    /\ Unwrap(scale) = MAX_SCALE_FACTOR

\* A selection set that holds the same field twice, and the set that holds it once.
IsScalingField(q) == q # <<>> /\ \E i \in 1..Len(q) : IsSome(q[i].rate)

Halves(q) == [once |-> SubSeq(q, 1, Len(q) \div 2),
              again |-> SubSeq(q, Len(q) \div 2 + 1, Len(q))]

IsDoubled(q) ==
    /\ Len(q) >= 2
    /\ Len(q) % 2 = 0
    /\ Halves(q).once = Halves(q).again
    /\ Head(q).op = "visit"
    /\ IsScalingField(Halves(q).once)

Inner(q) == SubSeq(q, 2, Len(q) - 1)

IsDoubledInside(q) ==
    /\ Len(q) >= 4
    /\ Head(q).op = "visit"
    /\ IsDoubled(Inner(q))

\* C2: selecting the same scaling field twice in a selection set, at the top
\* level or under a field, gives the result of selecting it once.
C2_DuplicateFieldIdempotent ==
    AnalysisDone =>
        /\ (IsDoubled(query) =>
                Unwrap(scale) = Analyze(Halves(query).once, input))
        /\ (IsDoubledInside(query) =>
                Unwrap(scale) =
                    Analyze(<<Head(query)>> \o Halves(Inner(query)).once
                                \o <<query[Len(query)]>>, input))

C2_Witness ==
    /\ AnalysisDone
    /\ IsDoubled(query)
    /\ Unwrap(scale) > MIN_SCALE_FACTOR
    /\ Unwrap(scale) < MAX_SCALE_FACTOR

\* The input { a: [ {a: x}, ... ] } with n parents, each carrying x.
UniformInput(x, n) == JObj(MapOf(KeyA, JArr(Rep(JObj(MapOf(KeyA, x)), n))))

Sized == {z \in Leaves : z.t \in {"str", "arr"}}

NestedPath == <<KeyA, KeyA>>

\* The original statement of C3: for every rate r, negative ones included, N
\* parents that each carry a value of length M contribute N * M * r to the
\* path's sum.
C3_CumulativeAnyRate ==
    todo = <<>> =>
        \A r1 \in Rates, r \in Rates \ {None}, x \in Sized, n \in 0..MaxParents :
            (query = Nested(r1, r) /\ input = UniformInput(x, n)) =>
                GroupRate(rates, NestedPath) = n * Len(x.v) * Unwrap(r)

\* C3 (amended): for a rate r >= 0, N parents that each carry a value of
\* length M contribute N * M * r to the path's sum before the maximum over paths
\* and the clamp are taken: the parents' contributions are summed.
C3_CumulativePerPath ==
    todo = <<>> =>
        \A r1 \in Rates, r \in Rates \ {None}, x \in Sized, n \in 0..MaxParents :
            (query = Nested(r1, r) /\ input = UniformInput(x, n) /\ Unwrap(r) >= 0) =>
                GroupRate(rates, NestedPath) = n * Len(x.v) * Unwrap(r)

C3_Witness ==
    /\ todo = <<>>
    /\ \E r1 \in Rates :
        /\ query = Nested(r1, Some(500))
        /\ input = UniformInput(JArr(Rep(JStr(<<97>>), MaxLen)), MaxParents)
    /\ GroupRate(rates, NestedPath) = MaxParents * MaxLen * 500

\* The events delivered so far.
Consumed == SubSeq(query, 1, Len(query) - Len(todo))

\* The keys of the fields entered and not yet left after the events.
RECURSIVE OpenKeys(_, _)
OpenKeys(events, open) ==
    IF events = <<>> THEN open
    ELSE OpenKeys(Tail(events),
                  IF Head(events).op = "visit" THEN Append(open, Head(events).key)
                  ELSE SubSeq(open, 1, Len(open) - 1))

\* C25: at every point of a traversal the value stack has one level more than
\* the path stack has keys, and its bottom level holds only the input root;
\* the path stack holds the keys of the fields entered and not yet left, so
\* entering pushes one element on each stack and leaving pops one; a field is
\* left only when both stacks can be popped; after the traversal the path
\* stack is empty and the value stack is the single root level.
C25_StackDiscipline ==
    /\ Len(value_stack) = Len(path_stack) + 1
    /\ value_stack[1] = <<input>>
    /\ path_stack = OpenKeys(Consumed, <<>>)
    /\ (todo # <<>> /\ Head(todo).op = "leave") =>
            (path_stack # <<>> /\ Len(value_stack) >= 2)
    /\ todo = <<>> => (path_stack = <<>> /\ value_stack = <<<<input>>>>)

C25_Witness ==
    /\ todo = <<>>
    /\ Len(query) = 6
    /\ query[2].op = "visit"
    /\ query[4].op = "visit"
    /\ path_stack = <<>>
    /\ value_stack = <<<<input>>>>
    /\ input.t = "obj"

\* The contributions recorded by the events, as (path, index, increment).
RECURSIVE Recorded(_, _, _)
Recorded(s, events, acc) ==
    IF events = <<>> THEN acc
    ELSE LET e == Head(events)
             values == s.value_stack[Len(s.value_stack)]
         IN  IF e.op = "leave" THEN Recorded(LeaveField(s), Tail(events), acc)
             ELSE Recorded(VisitField(s, e.key, e.rate), Tail(events),
                           IF ~IsSome(e.rate) THEN acc
                           ELSE acc \cup
                                {[path |-> Append(s.path_stack, e.key),
                                  index |-> i - 1,
                                  increment |-> Increment(ValueForField(values[i], e.key),
                                                          Unwrap(e.rate))] :
                                    i \in 1..Len(values)})

RecordedSoFar == Recorded(NewScaleLimits(input), Consumed, {})

ContributionsAt(k) ==
    {c.increment : c \in {d \in RecordedSoFar : d.path = k.path /\ d.index = k.index}}

LargestOf(S) == CHOOSE x \in S : \A y \in S : y <= x

\* The path ends in a field that carries a rate.
LastFieldCarriesRate(path) ==
    \E j \in 1..Len(Consumed) :
        /\ Consumed[j].op = "visit"
        /\ IsSome(Consumed[j].rate)
        /\ Append(OpenKeys(SubSeq(Consumed, 1, j - 1), <<>>), Consumed[j].key) = path

NeverDecreases ==
    \A k \in DOMAIN rates : k \in DOMAIN rates' /\ rates'[k] >= rates[k]

\* The original statement of C26: for every rate, negative ones included, an
\* entry equals the maximum of the contributions recorded for its key.
C26_EntryIsMaximumAnyRate ==
    \A k \in DOMAIN rates :
        /\ ContributionsAt(k) # {}
        /\ rates[k] = LargestOf(ContributionsAt(k))

\* C26 (amended): an entry equals the maximum of 0.0 and the contributions
\* recorded for its key (the maximum of the contributions when the rate is not
\* negative, 0.0 when it is); entries exist exactly for the keys that recorded
\* a contribution, all at paths whose last field carries a rate; and no entry
\* ever decreases.
C26_EntryIsMaximumFromZero ==
    /\ [](/\ DOMAIN rates = {PathWithIndex(c.path, c.index) : c \in RecordedSoFar}
          /\ \A k \in DOMAIN rates :
                /\ rates[k] = LargestOf(ContributionsAt(k) \cup {0})
                /\ LastFieldCarriesRate(k.path))
    /\ [][NeverDecreases]_vars

C26_Witness ==
    /\ todo = <<>>
    /\ Len(query) = 4
    /\ query[1].rate = Some(500)
    /\ query[3].rate = Some(500)
    /\ PathWithIndex(<<KeyA>>, 0) \in DOMAIN rates
    /\ rates[PathWithIndex(<<KeyA>>, 0)] = MaxLen * 500
    /\ Cardinality(RecordedSoFar) = 1

\* The length the statement gives to the child of a parent.
ClaimedLength(parent, key) ==
    IF parent.t = "obj" /\ key \in DOMAIN parent.v
    THEN IF parent.v[key].t \in {"str", "arr"} THEN Len(parent.v[key].v) ELSE 1
    ELSE 1

\* The values the statement pushes for one parent.
ClaimedNested(parent, key) ==
    IF parent.t = "obj" /\ key \in DOMAIN parent.v
    THEN IF parent.v[key].t = "arr" THEN parent.v[key].v ELSE <<parent.v[key]>>
    ELSE <<>>

ParentsInScope == value_stack[Len(value_stack)]

\* C27: entering a field with rate r records, for each parent value in scope,
\* the contribution length * r (string length, element count, or 1 for any
\* other child, a missing child or a parent that is no object), and pushes as
\* the nested level, in parent order, every element of an array child, or the
\* child itself when present, and nothing for a missing child.
C27_ContributionAndNested ==
    [][(todo # <<>> /\ Head(todo).op = "visit" /\ todo' = Tail(todo)) =>
        LET key == Head(todo).key
            rate == Head(todo).rate
            path == Append(path_stack, key)
        IN  /\ value_stack'[Len(value_stack')] =
                    Flatten([i \in 1..Len(ParentsInScope) |-> ClaimedNested(ParentsInScope[i], key)])
            /\ IsSome(rate) =>
                    \A i \in 1..Len(ParentsInScope) :
                        LET k == PathWithIndex(path, i - 1)
                        IN  /\ k \in DOMAIN rates'
                            /\ rates'[k] =
                                   Max(IF k \in DOMAIN rates THEN rates[k] ELSE 0,
                                       ClaimedLength(ParentsInScope[i], key) * Unwrap(rate))
            /\ ~IsSome(rate) => rates' = rates]_vars

C27_Witness ==
    /\ Len(Consumed) = 2
    /\ Consumed[2].op = "visit"
    /\ Consumed[2].rate = Some(500)
    /\ input = JObj(MapOf(KeyA, JArr(Rep(JObj(MapOf(KeyA, JArr(<<>>))), 2))))
    /\ value_stack[3] = <<>>
    /\ rates[PathWithIndex(<<KeyA, KeyA>>, 0)] = 0
    /\ rates[PathWithIndex(<<KeyA, KeyA>>, 1)] = 0

-----------------------------------------------------------------------------
(* Building containers *)

MaxRaw == 3         \* longest byte string drawn exhaustively

\* space " , 1 [ ] a, MessagePack fixarray(1) fixstr(1) nil, the unassigned
\* MessagePack marker, and 0xc3 (MessagePack true, a UTF-8 lead byte)
ByteAlphabet == {32, 34, 44, 49, 91, 93, 97, 145, 161, 192, 193, 195}

ShortBytes == SeqsUpTo(ByteAlphabet, MaxRaw)

ContainerValues ==
    {JNull, JBool(TRUE), JBool(FALSE), JNum(0), JNum(1), JNum(12),
     JStr(<<>>), JStr(<<97>>), JStr(<<195, 169>>),
     JArr(<<>>), JArr(<<JNum(1)>>), JArr(<<JNum(1), JStr(<<97>>)>>), JArr(<<JArr(<<>>)>>),
     JObj(EmptyMap), JObj(MapOf(KeyA, JNum(1))), JObj(MapOf(KeyA, JArr(<<JNum(1)>>))),
     JObj(MapInsert(MapOf(KeyB, JNull), KeyA, JNum(1))),
     JObj(MapOf(KeyA, JObj(MapOf(KeyA, JStr(<<97>>)))))}

\* JSON texts of a value: compact, pretty, and compact inside whitespace
JsonTexts(x) == {ToVec(x), ToStringPretty(x), <<32, 10>> \o ToVec(x) \o <<10, 32>>}

\* {"b":1,"a":[1]}   and   {"a":1,"a":12}
UnsortedText == <<123, 34, 98, 34, 58, 49, 44, 34, 97, 34, 58, 91, 49, 93, 125>>
UnsortedValue == JObj(MapInsert(MapOf(KeyB, JNum(1)), KeyA, JArr(<<JNum(1)>>)))
RepeatedKeyText == <<123, 34, 97, 34, 58, 49, 44, 34, 97, 34, 58, 49, 50, 125>>
RepeatedKeyValue == JObj(MapOf(KeyA, JNum(12)))

\* A rendering cut short inside a string, an array or an object, and a value
\* followed by a second one: none is a JSON text
BrokenTexts ==
    {SubSeq(ToVec(x), 1, Len(ToVec(x)) - 1) : x \in {y \in ContainerValues : y.t \in {"str", "arr", "obj"}}}
        \cup {ToVec(x) \o <<32>> \o ToVec(x) : x \in ContainerValues}
        \cup {<<>>, <<48, 49>>, <<91, 49, 44, 93>>, <<34, 255, 34>>}

\* MessagePack encodings, whole, cut short, and followed by another byte
MpTexts ==
    {MpEncode(x) : x \in ContainerValues}
        \cup {SubSeq(MpEncode(x), 1, Len(MpEncode(x)) - 1) : x \in ContainerValues}
        \cup {MpEncode(x) \o <<193>> : x \in ContainerValues}
        \cup {<<129, 1, 1>>, <<161, 255>>, <<204, 200>>, <<255>>}

Codecs == {"Raw", "Json", "Messagepack"}
ContainerTypes == {"Input", "Output"}

AnalyzerIdle ==
    /\ value_stack = <<>>
    /\ path_stack = <<>>
    /\ rates = EmptyMap
    /\ todo = <<>>
    /\ query = <<>>
    /\ input = JNull
    /\ scale = None

InitContainer ==
    /\ HandlerIdle
    /\ TestIdle
    /\ CliIdle
    /\ EnforcingIdle
    /\ LogStreamIdle
    /\ DisplayIdle
    /\ HarnessIdle
    /\ LimiterIdle
    /\ ProviderIdle
    /\ ModuleIdle
    /\ AnalyzerIdle
    /\ RunIdle
    /\ c_ty \in ContainerTypes
    /\ c_codec \in Codecs
    /\ \/ /\ c_src \in {Some(x) : x \in ContainerValues}
          /\ c_raw \in JsonTexts(Unwrap(c_src))
       \/ /\ c_src = Some(UnsortedValue)
          /\ c_raw = UnsortedText
       \/ /\ c_src = Some(RepeatedKeyValue)
          /\ c_raw = RepeatedKeyText
       \/ /\ c_src = None
          /\ c_raw \in ShortBytes \cup BrokenTexts \cup MpTexts
    /\ c_result = None
    /\ c_again = None

\* BytesContainer::new(ty, codec, raw)
ContainerNew ==
    /\ c_result = None
    /\ c_result' = Some(BytesContainerNew(c_ty, c_codec, c_raw))
    /\ UNCHANGED <<c_ty, c_codec, c_raw, c_src, c_again, avars, rvars, pvars, mvars, lvars, hvars, dvars, svars, evars, gvars, tvars, kvars>>

\* BytesContainer::new(Input, Json, container.raw) on a JSON container
ContainerRebuild ==
    /\ IsSome(c_result)
    /\ Unwrap(c_result).ok
    /\ Unwrap(c_result).c.codec = "Json"
    /\ c_again = None
    /\ c_again' = Some(BytesContainerNew("Input", "Json", Unwrap(c_result).c.raw))
    /\ UNCHANGED <<c_ty, c_codec, c_raw, c_src, c_result, avars, rvars, pvars, mvars, lvars, hvars, dvars, svars, evars, gvars, tvars, kvars>>

NextContainer ==
    \/ ContainerNew
    \/ ContainerRebuild

SpecContainer == InitContainer /\ [][NextContainer]_vars

-----------------------------------------------------------------------------
(* Claims about containers *)

Built == IsSome(c_result)
Container == Unwrap(c_result).c

\* Whether the bytes decode under the codec
Decodes(codec, raw) == IF codec = "Json" THEN FromSlice(raw).ok ELSE MpFromSlice(raw).ok

OutputDidNotDecode ==
    /\ Built
    /\ c_ty = "Output"
    /\ c_codec \in {"Json", "Messagepack"}
    /\ ~Decodes(c_codec, c_raw)

\* C8: an Output container built from bytes that do not decode under the codec
\* has encoding_error set, json_value unset, humanized equal to the lossy UTF-8
\* rendering of the bytes, and raw equal to the bytes passed in.
C8_OutputInvalidKeepsRaw ==
    OutputDidNotDecode =>
        /\ Unwrap(c_result).ok
        /\ IsSome(Container.encoding_error)
        /\ ~IsSome(Container.json_value)
        /\ Container.humanized = Lossy(c_raw)
        /\ Container.raw = c_raw

\* C9: building an Output container never fails, whatever the codec and the
\* bytes, and the container has at most one of json_value and encoding_error.
C9_OutputNeverFails ==
    (Built /\ c_ty = "Output") =>
        /\ Unwrap(c_result).ok
        /\ ~(IsSome(Container.json_value) /\ IsSome(Container.encoding_error))

C9_Witness ==
    /\ Built
    /\ c_ty = "Output"
    /\ c_codec = "Messagepack"
    /\ Unwrap(c_result).ok
    /\ IsSome(Container.encoding_error)
    /\ ~IsSome(Container.json_value)

CanonicalRaw(codec, x) == IF codec = "Json" THEN ToVec(x) ELSE MpEncode(x)

\* C10: an Input container built from a JSON text of the value J has
\* json_value = J, no encoding_error, and raw = the canonical encoding of J in
\* the codec (minified JSON, or MessagePack); building an Input container again
\* from a JSON container's raw gives the same raw; a text that does not parse
\* gives an error.
C10_InputRoundTrip ==
    (Built /\ c_ty = "Input" /\ c_codec \in {"Json", "Messagepack"}) =>
        /\ IsSome(c_src) =>
                /\ Unwrap(c_result).ok
                /\ Container.json_value = c_src
                /\ Container.encoding_error = None
                /\ Container.raw = CanonicalRaw(c_codec, Unwrap(c_src))
        /\ (c_raw \in BrokenTexts \/ ~FromSlice(c_raw).ok) => ~Unwrap(c_result).ok
        /\ (IsSome(c_again) /\ c_codec = "Json") =>
                /\ Unwrap(c_again).ok
                /\ Unwrap(c_again).c.raw = Container.raw
                /\ Unwrap(c_again).c.json_value = Container.json_value

C10_Witness ==
    /\ Built
    /\ c_ty = "Input"
    /\ c_codec = "Json"
    /\ c_src = Some(UnsortedValue)
    /\ c_raw # Container.raw
    /\ IsSome(c_again)
    /\ Unwrap(c_again).c.raw = Container.raw

-----------------------------------------------------------------------------
(* engine::run *)

MaxOut == 2         \* most bytes the guest writes to stdout
MaxLog == 2         \* most bytes the guest writes to stderr
MaxPages == 2       \* largest memory the guest asks for, in 64 KiB pages

KiB == 1024

\* 1 and x: an output that decodes as JSON, and one that does not
OutBytes == {49, 120}

\* a, the lead byte of a two-byte character, and a byte no UTF-8 text holds
LogBytes == {97, 195, 255}

\* I32Exit codes: proc_exit accepts 0..125
ExitCodes == {0, 1, 7, 125}

\* "trap" and "interrupt": Display of errors that are not an I32Exit
TrapMessages == {<<116, 114, 97, 112>>, <<105, 110, 116, 101, 114, 114, 117, 112, 116>>}

Returned == [kind |-> "return", code |-> 0, msg |-> <<>>]
Exited(code) == [kind |-> "exit", code |-> code, msg |-> <<>>]
Trapped(msg) == [kind |-> "trap", code |-> 0, msg |-> msg]

\* "module exited with code: "
ExitText ==
    <<109, 111, 100, 117, 108, 101, 32, 101, 120, 105, 116, 101, 100, 32,
      119, 105, 116, 104, 32, 99, 111, 100, 101, 58, 32>>

\* anyhow!("module exited with code: {}", code).to_string()
ExitMessage(code) == ExitText \o Decimal(code)

RunOk == [ok |-> TRUE, msg |-> <<>>]
RunErr(msg) == [ok |-> FALSE, msg |-> msg]

ModuleResultNoZero(call) ==
    IF call.kind = "return" THEN RunOk
    ELSE IF call.kind = "exit" THEN RunErr(ExitMessage(call.code))
    ELSE RunErr(call.msg)

\* module_result after the or_else that maps I32Exit
ModuleResult(call) ==
    IF call.kind = "return" THEN RunOk
    ELSE IF call.kind = "exit"
         THEN (IF call.code = 0 THEN RunOk ELSE RunErr(ExitMessage(call.code)))
    ELSE RunErr(call.msg)

\* error_logs: e.to_string() of a failed module_result, else empty
ErrorLogs(module_result) == IF module_result.ok THEN <<>> ELSE module_result.msg

RunLogsWithoutError(stderr, error_logs) == Lossy(stderr)

\* logs.extend_from_slice(error_logs.as_bytes()); String::from_utf8_lossy(&logs)
RunLogs(stderr, error_logs) == Lossy(stderr \o error_logs)

MemoryGrowingLast(max_memory_bytes, desired) == desired

\* store.data().max_memory_bytes() as u64 / 1024
MemoryUsage(max_memory_bytes) == max_memory_bytes \div KiB

\* MemoryLimiter::memory_growing
MemoryGrowing(max_memory_bytes, desired) == Max(max_memory_bytes, desired)

\* The FunctionRunResult run builds once func.call has returned.
FunctionRunResult(input_c, stdout, stderr, mem, call) ==
    LET module_result == ModuleResult(call)
        output == BytesContainerNew("Output", input_c.codec, stdout)
    IN  IF ~output.ok THEN [ok |-> FALSE, v |-> JNull]
        ELSE [ok |-> TRUE,
              v |-> [memory_usage |-> MemoryUsage(mem),
                     logs |-> RunLogs(stderr, ErrorLogs(module_result)),
                     input |-> input_c,
                     output |-> output.c,
                     success |-> module_result.ok]]

RunInputs ==
    {BytesContainerNew("Input", codec, <<123, 125>>).c : codec \in Codecs}

InitRun ==
    /\ HandlerIdle
    /\ TestIdle
    /\ CliIdle
    /\ EnforcingIdle
    /\ LogStreamIdle
    /\ DisplayIdle
    /\ HarnessIdle
    /\ LimiterIdle
    /\ ProviderIdle
    /\ ModuleIdle
    /\ AnalyzerIdle
    /\ ContainerIdle
    /\ r_pc = "start"
    /\ r_input \in RunInputs
    /\ r_stdout = <<>>
    /\ r_stderr = <<>>
    /\ r_mem = 0
    /\ r_call = None
    /\ r_result = None

\* linker.instantiate(..)? and instance.get_typed_func(..)?, followed by func.call
RunInstantiate ==
    /\ r_pc = "start"
    /\ r_pc' = "guest"
    /\ UNCHANGED <<r_input, r_stdout, r_stderr, r_mem, r_call, r_result, avars, cvars, pvars, mvars, lvars, hvars, dvars, svars, evars, gvars, tvars, kvars>>

\* The same, failing: run returns the error
RunInstantiateFails ==
    /\ r_pc = "start"
    /\ r_pc' = "done"
    /\ r_result' = Some([ok |-> FALSE, v |-> JNull])
    /\ UNCHANGED <<r_input, r_stdout, r_stderr, r_mem, r_call, avars, cvars, pvars, mvars, lvars, hvars, dvars, svars, evars, gvars, tvars, kvars>>

\* The guest writes a byte to its standard output
GuestWriteStdout ==
    /\ r_pc = "guest"
    /\ Len(r_stdout) < MaxOut
    /\ \E b \in OutBytes : r_stdout' = Append(r_stdout, b)
    /\ UNCHANGED <<r_pc, r_input, r_stderr, r_mem, r_call, r_result, avars, cvars, pvars, mvars, lvars, hvars, dvars, svars, evars, gvars, tvars, kvars>>

\* The guest writes a byte to its standard error
GuestWriteStderr ==
    /\ r_pc = "guest"
    /\ Len(r_stderr) < MaxLog
    /\ \E b \in LogBytes : r_stderr' = Append(r_stderr, b)
    /\ UNCHANGED <<r_pc, r_input, r_stdout, r_mem, r_call, r_result, avars, cvars, pvars, mvars, lvars, hvars, dvars, svars, evars, gvars, tvars, kvars>>

\* The guest grows its memory: the store asks the limiter
GuestGrowMemory ==
    /\ r_pc = "guest"
    /\ \E pages \in 1..MaxPages : r_mem' = MemoryGrowing(r_mem, pages * 65536)
    /\ UNCHANGED <<r_pc, r_input, r_stdout, r_stderr, r_call, r_result, avars, cvars, pvars, mvars, lvars, hvars, dvars, svars, evars, gvars, tvars, kvars>>

\* func.call returns: the export returned, called proc_exit, or trapped
GuestEnds ==
    /\ r_pc = "guest"
    /\ r_call' \in {Some(Returned)} \cup {Some(Exited(c)) : c \in ExitCodes}
                    \cup {Some(Trapped(m)) : m \in TrapMessages}
    /\ r_pc' = "called"
    /\ UNCHANGED <<r_input, r_stdout, r_stderr, r_mem, r_result, avars, cvars, pvars, mvars, lvars, hvars, dvars, svars, evars, gvars, tvars, kvars>>

\* run, from the mapping of the exit code to Ok(function_run_result)
RunFinish ==
    /\ r_pc = "called"
    /\ r_result' = Some(FunctionRunResult(r_input, r_stdout, r_stderr, r_mem, Unwrap(r_call)))
    /\ r_pc' = "done"
    /\ UNCHANGED <<r_input, r_stdout, r_stderr, r_mem, r_call, avars, cvars, pvars, mvars, lvars, hvars, dvars, svars, evars, gvars, tvars, kvars>>

NextRun ==
    \/ RunInstantiate
    \/ RunInstantiateFails
    \/ GuestWriteStdout
    \/ GuestWriteStderr
    \/ GuestGrowMemory
    \/ GuestEnds
    \/ RunFinish

SpecRun == InitRun /\ [][NextRun]_vars

-----------------------------------------------------------------------------
(* Claims about run *)

RunDone == r_pc = "done" /\ IsSome(r_call)
RunResult == Unwrap(r_result).v
Call == Unwrap(r_call)

\* s holds sub as a contiguous run of bytes
Contains(s, sub) ==
    \E i \in 0..(Len(s) - Len(sub)) : SubSeq(s, i + 1, i + Len(sub)) = sub

\* C4: a guest that exits with code 0 gives success = true, and logs = "" when
\* it wrote nothing to stderr; a guest that exits with code N # 0 gives
\* success = false and logs that contain "module exited with code: N".
C4_ExitCodeMapping ==
    (RunDone /\ Call.kind = "exit") =>
        /\ Unwrap(r_result).ok
        /\ Call.code = 0 =>
                /\ RunResult.success
                /\ (r_stderr = <<>> => RunResult.logs = <<>>)
        /\ Call.code # 0 =>
                /\ ~RunResult.success
                /\ Contains(RunResult.logs, ExitMessage(Call.code))

C4_Witness ==
    /\ RunDone
    /\ Call = Exited(7)
    /\ r_stderr # <<>>
    /\ ~RunResult.success
    /\ Contains(RunResult.logs, ExitMessage(7))

GuestFailed == Call.kind = "trap" \/ (Call.kind = "exit" /\ Call.code # 0)

FailureMessage == IF Call.kind = "trap" THEN Call.msg ELSE ExitMessage(Call.code)

\* C5: when the guest invocation fails (a trap, an interruption or a nonzero
\* exit) run still returns a result, with success = false and logs = what the
\* guest wrote to its log stream (decoded as UTF-8, lossily) followed by the
\* error message, which for a trap that is no exit is the trap's own message;
\* when the invocation succeeds the logs are what the guest wrote alone.
C5_GuestFailureRecovered ==
    RunDone =>
        /\ Unwrap(r_result).ok
        /\ GuestFailed =>
                /\ ~RunResult.success
                /\ RunResult.logs = Lossy(r_stderr) \o FailureMessage
                /\ (Utf8Valid(r_stderr) => RunResult.logs = r_stderr \o FailureMessage)
        /\ ~GuestFailed =>
                /\ RunResult.success
                /\ RunResult.logs = Lossy(r_stderr)
                /\ (Utf8Valid(r_stderr) => RunResult.logs = r_stderr)

C5_Witness ==
    /\ RunDone
    /\ Call.kind = "trap"
    /\ r_stderr = <<97, 195>>
    /\ Unwrap(r_result).ok
    /\ RunResult.logs = <<97>> \o Replacement \o Call.msg

-----------------------------------------------------------------------------
(* Provider classification *)

MaxSuffix == 2      \* longest version text drawn from SuffixBytes

\* "shopify_functions_javy_v"
JavyPrefix == <<115, 104, 111, 112, 105, 102, 121, 95, 102, 117, 110, 99, 116, 105, 111, 110, 115, 95, 106, 97, 118, 121, 95, 118>>

\* "shopify_function_v"
FunctionPrefix == <<115, 104, 111, 112, 105, 102, 121, 95, 102, 117, 110, 99, 116, 105, 111, 110, 95, 118>>

\* "javy_quickjs_provider_v"
QuickjsPrefix == <<106, 97, 118, 121, 95, 113, 117, 105, 99, 107, 106, 115, 95, 112, 114, 111, 118, 105, 100, 101, 114, 95, 118>>

\* "wasi_snapshot_preview1"
WasiName == <<119, 97, 115, 105, 95, 115, 110, 97, 112, 115, 104, 111, 116, 95, 112, 114, 101, 118, 105, 101, 119, 49>>

\* usize::MAX, 2^64 - 1, in decimal
UsizeMaxDigits == <<49, 56, 52, 52, 54, 55, 52, 52, 48, 55, 51, 55, 48, 57, 53, 53, 49, 54, 49, 53>>

\* usize::MAX + 1 in decimal
UsizeOverflowDigits == <<49, 56, 52, 52, 54, 55, 52, 52, 48, 55, 51, 55, 48, 57, 53, 53, 49, 54, 49, 54>>

\* str::strip_prefix: Option of what follows the prefix
StripPrefix(s, prefix) ==
    IF Len(s) >= Len(prefix) /\ SubSeq(s, 1, Len(prefix)) = prefix
    THEN Some(SubSeq(s, Len(prefix) + 1, Len(s)))
    ELSE None

RECURSIVE StripZeros(_)
StripZeros(d) ==
    IF Len(d) > 1 /\ d[1] = 48 THEN StripZeros(Tail(d)) ELSE d

\* The digits exceed usize::MAX
Overflows(d) ==
    LET n == StripZeros(d)
    IN  \/ Len(n) > Len(UsizeMaxDigits)
        \/ Len(n) = Len(UsizeMaxDigits) /\ LexLess(UsizeMaxDigits, n)

AllDigits(d) == d # <<>> /\ \A i \in 1..Len(d) : IsDigit(d[i])

\* Option of the digits without leading zeros, when they are a usize
ParseDigits(d) ==
    IF AllDigits(d) /\ ~Overflows(d) THEN Some(StripZeros(d)) ELSE None

ParseUsizeNoSign(s) == ParseDigits(s)

\* s.parse::<usize>().ok(): an optional "+", then digits; the value is kept
\* as its decimal digits
ParseUsize(s) ==
    IF s # <<>> /\ s[1] = 43 THEN ParseDigits(Tail(s)) ELSE ParseDigits(s)

\* version >= n, for a parsed version and a one-digit n
VersionAtLeast(version, n) == Len(version) > 1 \/ version[1] - 48 >= n

\* .strip_prefix(prefix).map(|s| s.parse::<usize>()).and_then(|r| r.ok())
VersionAfter(name, prefix) ==
    LET rest == StripPrefix(name, prefix)
    IN  IF IsSome(rest) THEN ParseUsize(Unwrap(rest)) ELSE None

\* Provider::is_mem_io_provider
ProviderIsMemIoProvider(name) ==
    LET javy_plugin_version == VersionAfter(name, JavyPrefix)
        functions_provider_version == VersionAfter(name, FunctionPrefix)
    IN  IF IsSome(javy_plugin_version) /\ VersionAtLeast(Unwrap(javy_plugin_version), 3)
        THEN TRUE
        ELSE IF IsSome(functions_provider_version)
                /\ VersionAtLeast(Unwrap(functions_provider_version), 2)
        THEN TRUE
        ELSE FALSE

\* io::is_mem_io_provider
IoIsMemIoProvider(module) ==
    LET javy_plugin_version == VersionAfter(module, JavyPrefix)
        functions_provider_version == VersionAfter(module, FunctionPrefix)
    IN  IF IsSome(javy_plugin_version) /\ VersionAtLeast(Unwrap(javy_plugin_version), 3)
        THEN TRUE
        ELSE IF IsSome(functions_provider_version)
                /\ VersionAtLeast(Unwrap(functions_provider_version), 2)
        THEN TRUE
        ELSE FALSE

\* + 0 1 2 3 a
SuffixBytes == {43, 48, 49, 50, 51, 97}

Suffixes == SeqsUpTo(SuffixBytes, MaxSuffix) \cup {UsizeMaxDigits, UsizeOverflowDigits}

Prefixes == {JavyPrefix, FunctionPrefix, QuickjsPrefix, <<>>}

Names == {prefix \o suffix : prefix \in Prefixes, suffix \in Suffixes} \cup {WasiName}

InitProvider ==
    /\ HandlerIdle
    /\ TestIdle
    /\ CliIdle
    /\ EnforcingIdle
    /\ LogStreamIdle
    /\ DisplayIdle
    /\ HarnessIdle
    /\ LimiterIdle
    /\ AnalyzerIdle
    /\ ContainerIdle
    /\ RunIdle
    /\ ModuleIdle
    /\ p_name \in Names
    /\ p_provider = None
    /\ p_io = None

\* provider.is_mem_io_provider() on a Provider of this name
ClassifyProvider ==
    /\ p_provider = None
    /\ p_provider' = Some(ProviderIsMemIoProvider(p_name))
    /\ UNCHANGED <<p_name, p_io, avars, cvars, rvars, mvars, lvars, hvars, dvars, svars, evars, gvars, tvars, kvars>>

\* is_mem_io_provider(name) in io.rs
ClassifyIo ==
    /\ p_io = None
    /\ p_io' = Some(IoIsMemIoProvider(p_name))
    /\ UNCHANGED <<p_name, p_provider, avars, cvars, rvars, mvars, lvars, hvars, dvars, svars, evars, gvars, tvars, kvars>>

NextProvider ==
    \/ ClassifyProvider
    \/ ClassifyIo

SpecProvider == InitProvider /\ [][NextProvider]_vars

-----------------------------------------------------------------------------
(* Claims about provider classification *)

Classified == IsSome(p_provider) /\ IsSome(p_io)

\* The numerals of a version of at least n: digits only, written
\* with or without leading zeros
IsNumeralAtLeast(d, n) ==
    /\ AllDigits(d)
    /\ Len(StripZeros(d)) > 1 \/ StripZeros(d)[1] - 48 >= n

\* name is the prefix followed by a numeral of at least n
IsVersioned(name, prefix, n) ==
    /\ IsSome(StripPrefix(name, prefix))
    /\ IsNumeralAtLeast(Unwrap(StripPrefix(name, prefix)), n)

\* C7 as stated: a name is memory-I/O iff it is shopify_functions_javy_v<N>
\* with N >= 3 or shopify_function_v<N> with N >= 2, <N> being a numeral, and
\* both classifiers give that answer.
C7_ClassifiedByNumeral ==
    Classified =>
        /\ Unwrap(p_provider) = Unwrap(p_io)
        /\ Unwrap(p_provider) <=>
                \/ IsVersioned(p_name, JavyPrefix, 3)
                \/ IsVersioned(p_name, FunctionPrefix, 2)

\* What usize's parser accepts as a version of at least n: an optional "+",
\* then a numeral of at least n and at most usize::MAX
IsParsedAtLeast(d, n) ==
    LET digits == IF d # <<>> /\ d[1] = 43 THEN Tail(d) ELSE d
    IN  /\ IsNumeralAtLeast(digits, n)
        /\ \/ Len(StripZeros(digits)) < Len(UsizeMaxDigits)
           \/ /\ Len(StripZeros(digits)) = Len(UsizeMaxDigits)
              /\ ~LexLess(UsizeMaxDigits, StripZeros(digits))

IsParsedVersion(name, prefix, n) ==
    /\ IsSome(StripPrefix(name, prefix))
    /\ IsParsedAtLeast(Unwrap(StripPrefix(name, prefix)), n)

\* C7, amended: a name is memory-I/O iff it is one of the two prefixes
\* followed by a text usize's parser accepts (an optional "+", then decimal
\* digits of a value no larger than usize::MAX) whose value is at least 3 for
\* shopify_functions_javy_v and at least 2 for shopify_function_v; every other
\* name is streamed-stdio, and the two classifiers agree on every name.
C7_ClassifiedByParsedVersion ==
    Classified =>
        /\ Unwrap(p_provider) = Unwrap(p_io)
        /\ Unwrap(p_provider) <=>
                \/ IsParsedVersion(p_name, JavyPrefix, 3)
                \/ IsParsedVersion(p_name, FunctionPrefix, 2)

C7_Witness ==
    /\ Classified
    /\ p_name = FunctionPrefix \o <<43, 50>>
    /\ Unwrap(p_provider)
    /\ Unwrap(p_io)

-----------------------------------------------------------------------------
(* ValidatedModule::new *)

MaxImports == 3     \* most imports of a module

\* shopify_function_v1, shopify_function_v2, shopify_functions_javy_v1,
\* shopify_functions_javy_v3, javy_quickjs_provider_v3
ProviderNames ==
    {FunctionPrefix \o <<49>>, FunctionPrefix \o <<50>>, JavyPrefix \o <<49>>,
     JavyPrefix \o <<51>>, QuickjsPrefix \o <<51>>}

\* The providers the tests of validated_module.rs and engine.rs resolve:
\* shopify_function_v2 and shopify_functions_javy_v1
EmbeddedProviders == {FunctionPrefix \o <<50>>, JavyPrefix \o <<49>>}

\* The contents the embedded providers/ folder can have
Catalogs == {cat \in SUBSET ProviderNames : EmbeddedProviders \subseteq cat}

\* "env", a module no catalog holds
EnvName == <<101, 110, 118>>

ImportNames == ProviderNames \cup {WasiName, EnvName}

\* StandardProviders::get(&format!("{import}.wasm")).is_some()
StandardProvidersGet(catalog, import) == import \in catalog

\* imports.contains(&name)
SeqContains(imports, name) == \E i \in 1..Len(imports) : imports[i] = name

\* The loop that keeps the first occurrence of each import module
RECURSIVE Dedup(_, _)
Dedup(seen, rest) ==
    IF rest = <<>> THEN seen
    ELSE IF SeqContains(seen, Head(rest)) THEN Dedup(seen, Tail(rest))
    ELSE Dedup(Append(seen, Head(rest)), Tail(rest))

RECURSIVE FindLastStdImport(_, _)
FindLastStdImport(catalog, imports) ==
    IF imports = <<>> THEN None
    ELSE IF StandardProvidersGet(catalog, imports[Len(imports)])
         THEN Some(imports[Len(imports)])
    ELSE FindLastStdImport(catalog, SubSeq(imports, 1, Len(imports) - 1))

\* imports.iter().find_map(..): the first import the catalog holds
RECURSIVE FindStdImport(_, _)
FindStdImport(catalog, imports) ==
    IF imports = <<>> THEN None
    ELSE IF StandardProvidersGet(catalog, Head(imports)) THEN Some(Head(imports))
    ELSE FindStdImport(catalog, Tail(imports))

\* ValidatedModule::new
ValidatedModuleNew(catalog, module_imports) ==
    LET imports == Dedup(<<>>, module_imports)
        uses_wasi == SeqContains(imports, WasiName)
        std_import == FindStdImport(catalog, imports)
    IN  IF IsSome(std_import) /\ ProviderIsMemIoProvider(Unwrap(std_import)) /\ uses_wasi
        THEN [ok |-> FALSE, std_import |-> None]
        ELSE [ok |-> TRUE, std_import |-> std_import]

\* ValidatedModule::uses_mem_io
UsesMemIo(validated) ==
    IsSome(validated.std_import) /\ ProviderIsMemIoProvider(Unwrap(validated.std_import))

\* The import sections a module can have, by the module name of each import
ImportLists == SeqsUpTo(ImportNames, MaxImports)

InitModule ==
    /\ HandlerIdle
    /\ TestIdle
    /\ CliIdle
    /\ EnforcingIdle
    /\ LogStreamIdle
    /\ DisplayIdle
    /\ HarnessIdle
    /\ LimiterIdle
    /\ AnalyzerIdle
    /\ ContainerIdle
    /\ RunIdle
    /\ ProviderIdle
    /\ m_catalog \in Catalogs
    /\ m_imports \in ImportLists
    /\ m_result = None

\* ValidatedModule::new(module)
ModuleValidate ==
    /\ m_result = None
    /\ m_result' = Some(ValidatedModuleNew(m_catalog, m_imports))
    /\ UNCHANGED <<m_catalog, m_imports, avars, cvars, rvars, pvars, lvars, hvars, dvars, svars, evars, gvars, tvars, kvars>>

NextModule ==
    \/ ModuleValidate

SpecModule == InitModule /\ [][NextModule]_vars

-----------------------------------------------------------------------------
(* Claims about ValidatedModule::new *)

Validated == IsSome(m_result)

ImportsWasi == SeqContains(m_imports, WasiName)

\* C6 as stated: construction fails exactly when the imports hold both a
\* memory-I/O provider (a provider of the catalog whose name classifies as
\* memory-I/O) and wasi_snapshot_preview1, whatever their order and whatever
\* else is imported.
C6_FailsOnAnyMemIoWithWasi ==
    Validated =>
        (~Unwrap(m_result).ok <=>
            /\ ImportsWasi
            /\ \E i \in 1..Len(m_imports) :
                    /\ StandardProvidersGet(m_catalog, m_imports[i])
                    /\ ProviderIsMemIoProvider(m_imports[i]))

\* C6, amended: construction fails exactly when wasi_snapshot_preview1 is
\* imported and the first import that the catalog holds is a memory-I/O
\* provider; a memory-I/O provider imported after another catalog provider
\* does not make construction fail.
C6_FailsOnFirstProviderMemIoWithWasi ==
    Validated =>
        (~Unwrap(m_result).ok <=>
            /\ ImportsWasi
            /\ \E i \in 1..Len(m_imports) :
                    /\ StandardProvidersGet(m_catalog, m_imports[i])
                    /\ ProviderIsMemIoProvider(m_imports[i])
                    /\ \A j \in 1..(i - 1) :
                            ~StandardProvidersGet(m_catalog, m_imports[j]))

C6_Witness ==
    /\ Validated
    /\ m_imports = <<JavyPrefix \o <<49>>, FunctionPrefix \o <<50>>, WasiName>>
    /\ Unwrap(m_result).ok
    /\ ~UsesMemIo(Unwrap(m_result))

-----------------------------------------------------------------------------
(* MemoryLimiter *)

MaxDefined == 3     \* most memories one module defines

MAXIMUM_MEMORIES == 2

\* Sizes in bytes of a memory of 0..MaxPages pages
MemorySizes == {pages * 65536 : pages \in 0..MaxPages}

\* The declared maximum of a memory or table: Option<usize>
Maximums == {None} \cup {Some(size) : size \in MemorySizes}

\* Ok(true)
Granted == [ok |-> TRUE, grant |-> TRUE]

\* Ok(false)
Refused == [ok |-> TRUE, grant |-> FALSE]

MemoryGrowingWithinMaximum(current, desired, maximum) ==
    IF IsSome(maximum) /\ desired > Unwrap(maximum) THEN Refused ELSE Granted

\* What MemoryLimiter::memory_growing returns
MemoryGrowingAnswer(current, desired, maximum) == Granted

\* What MemoryLimiter::table_growing returns
TableGrowingAnswer(current, desired, maximum) == Granted

\* MemoryLimiter::memories
LimiterMemories == MAXIMUM_MEMORIES

InstantiateUnlimited(held, defined) == TRUE

\* The store's check at instantiation: the memories held and the memories the
\* module defines may not exceed ResourceLimiter::memories()
InstantiateAllowed(held, defined) == held + defined <= LimiterMemories

InitLimiter ==
    /\ HandlerIdle
    /\ TestIdle
    /\ CliIdle
    /\ EnforcingIdle
    /\ LogStreamIdle
    /\ DisplayIdle
    /\ HarnessIdle
    /\ AnalyzerIdle
    /\ ContainerIdle
    /\ RunIdle
    /\ ProviderIdle
    /\ ModuleIdle
    /\ l_pc = "running"
    /\ l_max = 0
    /\ l_asked = {}
    /\ l_answer = None
    /\ l_memories = 0
    /\ l_instantiate = None
    /\ l_usage = None

\* A memory is created or grown: the store calls memory_growing
LimiterMemoryGrowing ==
    /\ l_pc = "running"
    /\ \E current \in MemorySizes, desired \in MemorySizes, maximum \in Maximums :
            /\ l_max' = MemoryGrowing(l_max, desired)
            /\ l_asked' = l_asked \cup {desired}
            /\ l_answer' = Some([kind |-> "memory", desired |-> desired, maximum |-> maximum,
                                 answer |-> MemoryGrowingAnswer(current, desired, maximum)])
    /\ UNCHANGED <<l_pc, l_memories, l_instantiate, l_usage, avars, cvars, rvars, pvars, mvars, hvars, dvars, svars, evars, gvars, tvars, kvars>>

\* A table is created or grown: the store calls table_growing
LimiterTableGrowing ==
    /\ l_pc = "running"
    /\ \E current \in 0..MaxPages, desired \in 0..MaxPages,
          maximum \in {None} \cup {Some(n) : n \in 0..MaxPages} :
            l_answer' = Some([kind |-> "table", desired |-> desired, maximum |-> maximum,
                              answer |-> TableGrowingAnswer(current, desired, maximum)])
    /\ UNCHANGED <<l_pc, l_max, l_asked, l_memories, l_instantiate, l_usage,
                   avars, cvars, rvars, pvars, mvars, hvars, dvars, svars, evars, gvars, tvars, kvars>>

\* linker.instantiate of a provider or of the guest, a module that defines
\* `defined` memories
LimiterInstantiate ==
    /\ l_pc = "running"
    /\ \E defined \in 0..MaxDefined :
            LET allowed == InstantiateAllowed(l_memories, defined)
            IN  /\ l_instantiate' = Some([held |-> l_memories, defined |-> defined,
                                          ok |-> allowed])
                /\ l_memories' = IF allowed THEN l_memories + defined ELSE l_memories
    /\ UNCHANGED <<l_pc, l_max, l_asked, l_answer, l_usage, avars, cvars, rvars, pvars, mvars, hvars, dvars, svars, evars, gvars, tvars, kvars>>

\* run reads the high-water mark once the call has returned
LimiterMeasure ==
    /\ l_pc = "running"
    /\ l_usage' = Some(MemoryUsage(l_max))
    /\ l_pc' = "measured"
    /\ UNCHANGED <<l_max, l_asked, l_answer, l_memories, l_instantiate,
                   avars, cvars, rvars, pvars, mvars, hvars, dvars, svars, evars, gvars, tvars, kvars>>

NextLimiter ==
    \/ LimiterMemoryGrowing
    \/ LimiterTableGrowing
    \/ LimiterInstantiate
    \/ LimiterMeasure

SpecLimiter == InitLimiter /\ [][NextLimiter]_vars

-----------------------------------------------------------------------------
(* Claims about the MemoryLimiter *)

\* The largest of a set of sizes, 0 for none
Largest(S) == IF S = {} THEN 0 ELSE CHOOSE x \in S : \A y \in S : y <= x

\* C11: the high-water mark starts at 0 and is at every moment the largest
\* `desired` the limiter was asked for (so it never decreases), and the
\* memory_usage run reports, times 1024, equals it.
C11_MemoryHighWater ==
    /\ l_pc \in {"running", "measured"} => l_max = Largest(l_asked)
    /\ IsSome(l_usage) => Unwrap(l_usage) * KiB = Largest(l_asked)

C11_Witness ==
    /\ l_asked = MemorySizes
    /\ IsSome(l_answer)
    /\ Unwrap(l_answer).kind = "memory"
    /\ Unwrap(l_answer).desired = 0
    /\ l_usage = Some(MaxPages * 64)

\* C12: the limiter grants every memory-growth and every table-growth
\* request, whatever current, desired and maximum are: it never refuses and
\* never returns an error.
C12_EveryGrowthGranted ==
    IsSome(l_answer) => Unwrap(l_answer).answer = Granted

C12_Witness ==
    /\ IsSome(l_answer)
    /\ Unwrap(l_answer).kind = "memory"
    /\ IsSome(Unwrap(l_answer).maximum)
    /\ Unwrap(l_answer).desired > Unwrap(Unwrap(l_answer).maximum)
    /\ Unwrap(l_answer).answer = Granted
    /\ l_max = Unwrap(l_answer).desired

\* C13: the store never holds more than 2 linear memories: an instantiation
\* succeeds exactly when the memories held and the memories the module
\* defines are at most 2 together, so a module that would create a third
\* memory fails to instantiate.
C13_AtMostTwoMemories ==
    /\ l_memories <= 2
    /\ IsSome(l_instantiate) =>
            (Unwrap(l_instantiate).ok <=>
                Unwrap(l_instantiate).held + Unwrap(l_instantiate).defined <= 2)

C13_Witness ==
    /\ l_memories = 2
    /\ IsSome(l_instantiate)
    /\ Unwrap(l_instantiate).held = 2
    /\ Unwrap(l_instantiate).defined = 1
    /\ ~Unwrap(l_instantiate).ok

-----------------------------------------------------------------------------
(* IOHandler and the run that drives it *)

MemLen == 28        \* bytes of the provider's linear memory
MaxBurn == 1        \* most fuel one phase of a run consumes

\* A u64 amount of fuel is held as its distance below u64::MAX, which is exact
\* for every amount a run of at most 3 * MaxBurn instructions reaches.
STARTING_FUEL == 0

\* u64::MAX, the amount initialize and finalize refill to
FuelMax == 0

\* fuel after the guest consumed n of it
Consume(fuel, n) == fuel + n

\* a.saturating_sub(b)
SaturatingSub(a, b) == Max(0, b - a)

FuelKept(fuel) == fuel

\* store.set_fuel(STARTING_FUEL) before the guest is instantiated
FuelAtStart(fuel) == STARTING_FUEL

\* STARTING_FUEL.saturating_sub(store.get_fuel().unwrap_or_default())
Instructions(fuel) == SaturatingSub(STARTING_FUEL, fuel)

\* u32::to_le_bytes, as the guest writes a field of the record
U32ToLe(v) == <<v % 256, (v \div 256) % 256, (v \div 65536) % 256, v \div 16777216>>

U32FromBe(b) == b[4] + 256 * b[3] + 65536 * b[2] + 16777216 * b[1]

\* u32::from_le_bytes(..) as usize
U32FromLe(b) == b[1] + 256 * b[2] + 65536 * b[3] + 16777216 * b[4]

\* a read that leaves a region of length 0 alone, whatever its offset
MemoryReadSkippingEmpty(memory, offset, n) ==
    IF n = 0 THEN [ok |-> TRUE, bytes |-> <<>>]
    ELSE IF offset <= Len(memory) /\ n <= Len(memory) - offset
    THEN [ok |-> TRUE, bytes |-> SubSeq(memory, offset + 1, offset + n)]
    ELSE [ok |-> FALSE, bytes |-> <<>>]

\* Memory::read: data.get(offset..).and_then(|s| s.get(..buffer.len()))
MemoryRead(memory, offset, n) ==
    IF offset <= Len(memory) /\ n <= Len(memory) - offset
    THEN [ok |-> TRUE, bytes |-> SubSeq(memory, offset + 1, offset + n)]
    ELSE [ok |-> FALSE, bytes |-> <<>>]

\* Memory::write: the memory with the bytes at offset, or an error
MemoryWrite(memory, offset, bytes) ==
    IF offset <= Len(memory) /\ Len(bytes) <= Len(memory) - offset
    THEN [ok |-> TRUE,
          memory |-> SubSeq(memory, 1, offset) \o bytes
                     \o SubSeq(memory, offset + Len(bytes) + 1, Len(memory))]
    ELSE [ok |-> FALSE, memory |-> memory]

\* io.rs uses_mem_io: any import module classifies as memory-I/O
IoUsesMemIo(imports) == \E i \in 1..Len(imports) : IoIsMemIoProvider(imports[i])

\* IOHandler::new: the strategy
IOHandlerNew(imports) == IF IoUsesMemIo(imports) THEN "Memory" ELSE "Wasi"

OutputAndLogs(output, logs) == [ok |-> TRUE, output |-> output, logs |-> logs]
FinalizeErr == [ok |-> FALSE, output |-> <<>>, logs |-> <<>>]

\* The Memory arm of IOHandler::finalize, once the guest's finalize returned
\* results_offset: the 24-byte record and the three reads
FinalizeMemory(memory, results_offset) ==
    LET buf == MemoryRead(memory, results_offset, 24)
        field(k) == U32FromLe(SubSeq(buf.bytes, 4 * k + 1, 4 * k + 4))
        output == MemoryRead(memory, field(0), field(1))
        logs == MemoryRead(memory, field(2), field(3))
        logs2 == MemoryRead(memory, field(4), field(5))
    IN  IF ~buf.ok THEN FinalizeErr
        ELSE IF ~output.ok THEN FinalizeErr
        ELSE IF ~logs.ok THEN FinalizeErr
        ELSE IF ~logs2.ok THEN FinalizeErr
        ELSE OutputAndLogs(output.bytes, logs.bytes \o logs2.bytes)

FinalizeEffectsReadFirst(strategy) ==
    IF strategy = "Memory" THEN <<"retrieve", "finalize">> ELSE <<"retrieve">>

\* The side effects of a successful IOHandler::finalize, in order: the call of
\* the guest's finalize (memory-I/O only), then the reads of output and logs
FinalizeEffects(strategy) ==
    IF strategy = "Memory" THEN <<"finalize", "retrieve">> ELSE <<"retrieve">>

\* The Wasi arm of IOHandler::finalize: what the two pipes hold
FinalizeWasi(stdout, stderr) == OutputAndLogs(stdout, stderr)
\* The guests a run is given: a WASI guest, a guest of a streamed-stdio
\* provider, a guest of a memory-I/O provider, and a guest whose memory-I/O
\* provider the catalog does not hold
HarnessModules ==
    {[imports |-> <<WasiName>>, provided |-> TRUE],
     [imports |-> <<JavyPrefix \o <<49>>, WasiName>>, provided |-> TRUE],
     [imports |-> <<FunctionPrefix \o <<50>>>>, provided |-> TRUE],
     [imports |-> <<FunctionPrefix \o <<57>>>>, provided |-> FALSE]}

\* json_input("{}")
HarnessInput == BytesContainerNew("Input", "Json", <<123, 125>>).c

\* The provider's memory before the guest wrote to it
ZeroMemory == [i \in 1..MemLen |-> 0]

\* What the guest's initialize returns
InputOffsets == {0, MemLen - 1}

\* The bytes the guest keeps behind the record
GuestData == [i \in 1..(MemLen - 24) |-> 200 + i]

RecordPointers == {0, 24, MemLen, MemLen + 1}
RecordLengths == {0, 2}

\* (output_ptr, output_len, log_ptr_1, log_len_1, log_ptr_2, log_len_2)
Records ==
    {<<op, ol, p1, l1, p2, l2>> :
        op \in RecordPointers, ol \in RecordLengths,
        p1 \in RecordPointers, l1 \in RecordLengths,
        p2 \in RecordPointers, l2 \in RecordLengths}

\* The memory of a guest that wrote the record at offset 0
MemoryWithRecord(record) ==
    Flatten([k \in 1..6 |-> U32ToLe(record[k])]) \o GuestData

\* How the guest's finalize can end: a trap, or an offset with the memory
\* the guest left
GuestFinals ==
    {[trap |-> TRUE, results_offset |-> 0, record |-> <<0, 0, 0, 0, 0, 0>>,
      memory |-> ZeroMemory]}
    \cup {[trap |-> FALSE, results_offset |-> off, record |-> record,
           memory |-> MemoryWithRecord(record)] :
            off \in {0, 8}, record \in Records}

CallOutcomes == {Returned, Exited(0), Exited(1), Trapped(<<116, 114, 97, 112>>)}

HarnessErr == [ok |-> FALSE, v |-> JNull]

\* The FunctionRunResult of a run through the IOHandler
HarnessRunResult(input_c, io, measured) ==
    LET output == BytesContainerNew("Output", input_c.codec, io.output)
    IN  IF ~output.ok THEN HarnessErr
        ELSE [ok |-> TRUE,
              v |-> [instructions |-> measured.instructions,
                     logs |-> RunLogs(io.logs, measured.error_logs),
                     input |-> input_c,
                     output |-> output.c,
                     success |-> measured.module_result.ok]]

InitHarness ==
    /\ HandlerIdle
    /\ TestIdle
    /\ CliIdle
    /\ EnforcingIdle
    /\ LogStreamIdle
    /\ DisplayIdle
    /\ AnalyzerIdle
    /\ ContainerIdle
    /\ RunIdle
    /\ ProviderIdle
    /\ ModuleIdle
    /\ LimiterIdle
    /\ h_pc = "new"
    /\ h_module \in HarnessModules
    /\ h_strategy = IOHandlerNew(h_module.imports)
    /\ h_fuel = FuelMax
    /\ h_spent = 0
    /\ h_memory = <<>>
    /\ h_stdin = None
    /\ h_stdout = <<>>
    /\ h_stderr = <<>>
    /\ h_call = None
    /\ h_measured = None
    /\ h_final = None
    /\ h_io = None
    /\ h_result = None
    /\ h_trace = <<>>

Others == <<avars, cvars, rvars, pvars, mvars, lvars, dvars, svars, evars, gvars, tvars, kvars>>

\* IOHandler::wasi: the streamed-stdio strategy binds the input to stdin
HarnessWasi ==
    /\ h_pc = "new"
    /\ h_pc' = "context"
    /\ IF h_strategy = "Wasi"
       THEN /\ h_stdin' = Some(HarnessInput.raw)
            /\ h_trace' = Append(h_trace, "input")
       ELSE UNCHANGED <<h_stdin, h_trace>>
    /\ UNCHANGED <<h_module, h_strategy, h_fuel, h_spent, h_memory, h_stdout, h_stderr,
                   h_call, h_measured, h_final, h_io, h_result, Others, dvars, svars, evars, gvars, tvars, kvars>>

\* IOHandler::initialize
HarnessInitialize ==
    /\ h_pc = "context"
    /\ \E burn \in 0..MaxBurn, offset \in InputOffsets, trap \in BOOLEAN :
        LET instantiated == h_module.provided /\ h_module.imports # <<WasiName>>
            mem_io_instance == instantiated /\ h_strategy = "Memory"
            written == MemoryWrite(ZeroMemory, offset, HarnessInput.raw)
        IN  /\ h_fuel' = IF instantiated THEN Consume(FuelMax, burn) ELSE FuelMax
            /\ IF ~mem_io_instance
               THEN /\ ~trap /\ offset = 0
                    /\ h_memory' = IF instantiated THEN ZeroMemory ELSE h_memory
                    /\ h_pc' = "initialized"
                    /\ UNCHANGED <<h_result, h_trace>>
               ELSE IF trap
               THEN /\ offset = 0
                    /\ h_memory' = ZeroMemory
                    /\ h_pc' = "done"
                    /\ h_result' = Some(HarnessErr)
                    /\ UNCHANGED h_trace
               ELSE IF ~written.ok
               THEN /\ h_memory' = ZeroMemory
                    /\ h_pc' = "done"
                    /\ h_result' = Some(HarnessErr)
                    /\ UNCHANGED h_trace
               ELSE /\ h_memory' = written.memory
                    /\ h_pc' = "initialized"
                    /\ h_trace' = Append(h_trace, "input")
                    /\ UNCHANGED h_result
    /\ UNCHANGED <<h_module, h_strategy, h_spent, h_stdin, h_stdout, h_stderr,
                   h_call, h_measured, h_final, h_io, Others, dvars, svars, evars, gvars, tvars, kvars>>
\* run: set_fuel(STARTING_FUEL), then the guest is instantiated and the export
\* looked up; an import nothing provides makes the instantiation fail
HarnessInstantiate ==
    /\ h_pc = "initialized"
    /\ \E burn \in 0..MaxBurn, missing_export \in BOOLEAN :
        IF ~h_module.provided \/ missing_export
        THEN /\ burn = 0
             /\ h_fuel' = FuelAtStart(h_fuel)
             /\ h_pc' = "done"
             /\ h_result' = Some(HarnessErr)
             /\ UNCHANGED h_spent
        ELSE /\ h_fuel' = Consume(FuelAtStart(h_fuel), burn)
             /\ h_spent' = burn
             /\ h_pc' = "guest"
             /\ UNCHANGED h_result
    /\ UNCHANGED <<h_module, h_strategy, h_memory, h_stdin, h_stdout, h_stderr,
                   h_call, h_measured, h_final, h_io, h_trace, Others, dvars, svars, evars, gvars, tvars, kvars>>

\* func.call: the guest runs, consumes fuel, writes to its streams under the
\* streamed-stdio strategy, and returns, exits or traps
HarnessCall ==
    /\ h_pc = "guest"
    /\ \E burn \in 0..MaxBurn, outcome \in CallOutcomes,
          out \in {<<>>, <<49>>}, log \in {<<>>, <<97>>} :
            /\ h_strategy = "Memory" => out = <<>> /\ log = <<>>
            /\ h_fuel' = Consume(h_fuel, burn)
            /\ h_spent' = h_spent + burn
            /\ h_stdout' = out
            /\ h_stderr' = log
            /\ h_call' = Some(outcome)
    /\ h_pc' = "called"
    /\ h_trace' = Append(h_trace, "guest")
    /\ UNCHANGED <<h_module, h_strategy, h_memory, h_stdin, h_measured, h_final,
                   h_io, h_result, Others, dvars, svars, evars, gvars, tvars, kvars>>

\* run: the exit code is mapped, memory and fuel are measured, error_logs set
HarnessMeasure ==
    /\ h_pc = "called"
    /\ h_measured' = Some([module_result |-> ModuleResult(Unwrap(h_call)),
                           instructions |-> Instructions(h_fuel),
                           error_logs |-> ErrorLogs(ModuleResult(Unwrap(h_call)))])
    /\ h_pc' = "measured"
    /\ h_trace' = Append(h_trace, "measure")
    /\ UNCHANGED <<h_module, h_strategy, h_fuel, h_spent, h_memory, h_stdin, h_stdout,
                   h_stderr, h_call, h_final, h_io, h_result, Others, dvars, svars, evars, gvars, tvars, kvars>>

\* IOHandler::finalize, called by run whether or not the call failed
HarnessFinalize ==
    /\ h_pc = "measured"
    /\ IF h_strategy = "Wasi"
       THEN /\ h_io' = Some(FinalizeWasi(h_stdout, h_stderr))
            /\ h_pc' = "finalized"
            /\ h_trace' = h_trace \o FinalizeEffects(h_strategy)
            /\ UNCHANGED <<h_fuel, h_memory, h_final, h_result>>
       ELSE \E burn \in 0..MaxBurn, final \in GuestFinals :
            LET io == FinalizeMemory(final.memory, final.results_offset)
            IN  /\ h_fuel' = Consume(FuelMax, burn)
                /\ h_final' = Some(final)
                /\ h_memory' = final.memory
                /\ IF final.trap
                   THEN /\ h_pc' = "done"
                        /\ h_result' = Some(HarnessErr)
                        /\ h_trace' = Append(h_trace, "finalize")
                        /\ UNCHANGED h_io
                   ELSE IF ~io.ok
                   THEN /\ h_pc' = "done"
                        /\ h_result' = Some(HarnessErr)
                        /\ h_trace' = Append(h_trace, "finalize")
                        /\ UNCHANGED h_io
                   ELSE /\ h_pc' = "finalized"
                        /\ h_io' = Some(io)
                        /\ h_trace' = h_trace \o FinalizeEffects(h_strategy)
                        /\ UNCHANGED h_result
    /\ UNCHANGED <<h_module, h_strategy, h_spent, h_stdin, h_stdout, h_stderr,
                   h_call, h_measured, Others, dvars, svars, evars, gvars, tvars, kvars>>

\* run: error_logs appended to the logs, the output container built
HarnessFinish ==
    /\ h_pc = "finalized"
    /\ h_result' = Some(HarnessRunResult(HarnessInput, Unwrap(h_io), Unwrap(h_measured)))
    /\ h_pc' = "done"
    /\ h_trace' = Append(h_trace, "append")
    /\ UNCHANGED <<h_module, h_strategy, h_fuel, h_spent, h_memory, h_stdin, h_stdout,
                   h_stderr, h_call, h_measured, h_final, h_io, Others, dvars, svars, evars, gvars, tvars, kvars>>

NextHarness ==
    \/ HarnessWasi
    \/ HarnessInitialize
    \/ HarnessInstantiate
    \/ HarnessCall
    \/ HarnessMeasure
    \/ HarnessFinalize
    \/ HarnessFinish

SpecHarness == InitHarness /\ [][NextHarness]_vars
-----------------------------------------------------------------------------
(* Claims about a run through the IOHandler *)

HarnessDone == h_pc = "done" /\ IsSome(h_result) /\ Unwrap(h_result).ok
HarnessResult == Unwrap(h_result).v

Rank(effect) ==
    CASE effect = "input" -> 1
      [] effect = "guest" -> 2
      [] effect = "measure" -> 3
      [] effect = "finalize" -> 4
      [] effect = "retrieve" -> 5
      [] effect = "append" -> 6

Happened(effect) == \E i \in 1..Len(h_trace) : h_trace[i] = effect

FinalRecord == Unwrap(h_final).record
FinalMemory == Unwrap(h_final).memory

\* memory[ptr .. ptr + len]
Slice(memory, ptr, len) == SubSeq(memory, ptr + 1, ptr + len)

\* The guest's finalize returned the offset of a record it wrote
RecordReturned ==
    /\ IsSome(h_final)
    /\ ~Unwrap(h_final).trap
    /\ Unwrap(h_final).results_offset = 0

RegionInside(k) == FinalRecord[k] + FinalRecord[k + 1] <= MemLen

CallFailed ==
    /\ IsSome(h_call)
    /\ Unwrap(h_call).kind = "trap" \/ (Unwrap(h_call).kind = "exit" /\ Unwrap(h_call).code # 0)

RegionEmptyOrInside(k) == FinalRecord[k + 1] = 0 \/ RegionInside(k)

\* C18: an output or log segment of length 0 is absent whatever its pointer:
\* when every segment of nonzero length lies inside the memory, finalize
\* succeeds, also when a segment of length 0 points at 0 or outside the
\* memory, and that segment contributes no bytes.
C18_EmptySegmentIgnoresPointer ==
    (RecordReturned /\ RegionEmptyOrInside(1) /\ RegionEmptyOrInside(3)
        /\ RegionEmptyOrInside(5)) =>
            /\ IsSome(h_io)
            /\ FinalRecord[2] = 0 => Unwrap(h_io).output = <<>>
            /\ FinalRecord[4] = 0 =>
                    Unwrap(h_io).logs = Slice(FinalMemory, FinalRecord[5], FinalRecord[6])
            /\ FinalRecord[6] = 0 =>
                    Unwrap(h_io).logs = Slice(FinalMemory, FinalRecord[3], FinalRecord[4])
-----------------------------------------------------------------------------
(* impl fmt::Display for FunctionRunResult *)

FUNCTION_LOG_LIMIT == 1000
DEFAULT_INSTRUCTIONS_LIMIT == 11000000
DEFAULT_INPUT_SIZE_LIMIT == 128000
DEFAULT_OUTPUT_SIZE_LIMIT == 20000

Text_Input == <<32, 32, 32, 32, 32, 32, 32, 32, 32, 32, 32, 32, 73, 110, 112, 117, 116, 32, 32, 32, 32, 32, 32, 32, 32, 32, 32, 32, 32>>
Text_Logs == <<32, 32, 32, 32, 32, 32, 32, 32, 32, 32, 32, 32, 76, 111, 103, 115, 32, 32, 32, 32, 32, 32, 32, 32, 32, 32, 32, 32>>
Text_Output == <<32, 32, 32, 32, 32, 32, 32, 32, 32, 32, 32, 79, 117, 116, 112, 117, 116, 32, 32, 32, 32, 32, 32, 32, 32, 32, 32, 32>>
Text_InvalidOutput == <<32, 32, 32, 32, 32, 32, 32, 32, 73, 110, 118, 97, 108, 105, 100, 32, 79, 117, 116, 112, 117, 116, 32, 32, 32, 32, 32, 32>>
Text_JsonError == <<32, 32, 32, 32, 32, 32, 32, 32, 32, 74, 83, 79, 78, 32, 69, 114, 114, 111, 114, 32, 32, 32, 32, 32, 32, 32, 32, 32>>
Text_ResourceLimits == <<32, 32, 32, 32, 32, 32, 32, 32, 82, 101, 115, 111, 117, 114, 99, 101, 32, 76, 105, 109, 105, 116, 115, 32, 32, 32, 32, 32, 32, 32, 32>>
Text_BenchmarkResults == <<32, 32, 32, 32, 32, 66, 101, 110, 99, 104, 109, 97, 114, 107, 32, 82, 101, 115, 117, 108, 116, 115, 32, 32, 32, 32, 32, 32>>

\* "Logs would be truncated in production, length "
Text_Truncated ==
    <<76, 111, 103, 115, 32, 119, 111, 117, 108, 100, 32, 98, 101, 32, 116,
     114, 117, 110, 99, 97, 116, 101, 100, 32, 105, 110, 32, 112, 114, 111,
     100, 117, 99, 116, 105, 111, 110, 44, 32, 108, 101, 110, 103, 116, 104,
     32>>

\* " > "
Text_Over == <<32, 62, 32>>

\* " limit"
Text_Limit == <<32, 108, 105, 109, 105, 116>>

Text_LinearMemory == <<76, 105, 110, 101, 97, 114, 32, 77, 101, 109, 111, 114, 121, 32, 85, 115, 97, 103, 101, 58, 32>>
Text_ModuleSize == <<77, 111, 100, 117, 108, 101, 32, 83, 105, 122, 101, 58, 32>>
Text_Name == <<78, 97, 109, 101, 58, 32>>
Text_InputSize == <<73, 110, 112, 117, 116, 32, 83, 105, 122, 101>>
Text_OutputSize == <<79, 117, 116, 112, 117, 116, 32, 83, 105, 122, 101>>
Text_Instructions == <<73, 110, 115, 116, 114, 117, 99, 116, 105, 111, 110, 115>>

NL == <<10>>

\* colored: ESC [ codes m, the text, ESC [ 0 m; the plain text without colors
Colored(text, codes, color) ==
    IF color THEN <<27, 91>> \o codes \o <<109>> \o text \o <<27, 91, 48, 109>> ELSE text

\* background;foreground codes of the titles, and of red()
OnBrightYellow == <<49, 48, 51, 59, 51, 48>>
OnBrightBlue == <<49, 48, 52, 59, 51, 48>>
OnBrightGreen == <<49, 48, 50, 59, 51, 48>>
OnBrightRed == <<49, 48, 49, 59, 51, 48>>
OnBrightMagenta == <<49, 48, 53, 59, 51, 48>>
OnTrueColor == <<52, 56, 59, 50, 59, 49, 53, 48, 59, 49, 57, 49, 59, 55, 50, 59, 51, 48>>
Red == <<51, 49>>

\* format!("{:.2}", n as f64 / d as f64): two decimals, ties to even
TwoDecimals(n, d) ==
    LET q == (n * 100) \div d
        r == (n * 100) % d
        up == 2 * r > d \/ (2 * r = d /\ q % 2 = 1)
        h == IF up THEN q + 1 ELSE q
    IN  Decimal(h \div 100) \o <<46, 48 + ((h \div 10) % 10), 48 + (h % 10)>>

RECURSIVE StripTrailingZeros(_)
StripTrailingZeros(d) ==
    IF d # <<>> /\ d[Len(d)] = 48 THEN StripTrailingZeros(SubSeq(d, 1, Len(d) - 1)) ELSE d

\* format!("{}", n as f64 / unit as f64) for unit = 10^k: the shortest decimal
Shortest(n, unit, k) ==
    LET frac == Digits(n % unit)
        padded == StripTrailingZeros(Rep(48, k - Len(frac)) \o frac)
    IN  Decimal(n \div unit) \o (IF padded = <<>> THEN <<>> ELSE <<46>> \o padded)

\* humanize_size
HumanizeSize(title, size_bytes, size_limit, color) ==
    LET size_humanized ==
            IF size_bytes <= 1023 THEN Decimal(size_bytes) \o <<66>>
            ELSE IF size_bytes <= 1048575 THEN TwoDecimals(size_bytes, 1024) \o <<75, 66>>
            ELSE IF size_bytes <= 1073741823
                 THEN TwoDecimals(size_bytes \div 1024, 1024) \o <<77, 66>>
            ELSE TwoDecimals(size_bytes \div 1048576, 1024) \o <<71, 66>>
        line == title \o <<58, 32>> \o size_humanized
    IN  IF size_bytes > size_limit THEN Colored(line, Red, color) ELSE line

\* humanize_instructions
HumanizeInstructions(title, instructions, instructions_limit, color) ==
    LET instructions_humanized ==
            IF instructions <= 999 THEN Decimal(instructions)
            ELSE IF instructions <= 999999 THEN Shortest(instructions, 1000, 3) \o <<75>>
            ELSE IF instructions <= 999999999
                 THEN Shortest(instructions, 1000000, 6) \o <<77>>
            ELSE Shortest(instructions, 1000000000, 9) \o <<66>>
        line == title \o <<58, 32>> \o instructions_humanized
    IN  IF instructions > instructions_limit THEN Colored(line, Red, color) ELSE line

\* (self.scale_factor * default as f64) as u64, the scale factor in thousandths
ScaledLimit(default, scale_factor) == (default \div 1000) * scale_factor

\* get_json_size_as_bytes
GetJsonSizeAsBytes(value) == Len(ToVec(value))

\* FunctionRunResult::output_size
OutputSize(output) == IF output.json THEN GetJsonSizeAsBytes(output.value) ELSE 0

LogsOverLimitInclusive(logs_length) == logs_length >= FUNCTION_LOG_LIMIT

\* logs_length > FUNCTION_LOG_LIMIT
LogsOverLimit(logs_length) == logs_length > FUNCTION_LOG_LIMIT

\* format!("Logs would be truncated in production, length {logs_length} > {FUNCTION_LOG_LIMIT} limit")
TruncationWarning(logs_length) ==
    Text_Truncated \o Decimal(logs_length) \o Text_Over \o Decimal(FUNCTION_LOG_LIMIT)
    \o Text_Limit
JsonOutput(value) == [json |-> TRUE, value |-> value, error |-> <<>>, stdout |-> <<>>]
InvalidJsonOutput(error, stdout) ==
    [json |-> FALSE, value |-> JNull, error |-> error, stdout |-> stdout]

\* The Input block and the Logs block
DisplayHead(r, color) ==
    Colored(Text_Input, OnBrightYellow, color) \o NL \o NL \o ToStringPretty(r.input) \o NL
    \o Colored(Text_Logs, OnBrightBlue, color) \o NL \o NL \o r.logs \o NL \o NL

\* The warning written when the logs are over the limit
DisplayWarning(r, color) ==
    IF LogsOverLimit(Len(r.logs))
    THEN Colored(TruncationWarning(Len(r.logs)), Red, color) \o NL \o NL \o NL
    ELSE <<>>

\* The Output block, or the Invalid Output and JSON Error blocks
DisplayOutput(r, color) ==
    IF r.output.json
    THEN Colored(Text_Output, OnBrightGreen, color) \o NL \o NL
         \o ToStringPretty(r.output.value) \o NL
    ELSE Colored(Text_InvalidOutput, OnBrightRed, color) \o NL \o NL \o r.output.stdout \o NL
         \o Colored(Text_JsonError, OnBrightRed, color) \o NL \o NL \o r.output.error \o NL

\* The Resource Limits block and the Benchmark Results block
DisplayTail(r, color) ==
    LET input_size_limit == ScaledLimit(DEFAULT_INPUT_SIZE_LIMIT, r.scale_factor)
        output_size_limit == ScaledLimit(DEFAULT_OUTPUT_SIZE_LIMIT, r.scale_factor)
        instructions_size_limit == ScaledLimit(DEFAULT_INSTRUCTIONS_LIMIT, r.scale_factor)
    IN  NL \o Colored(Text_ResourceLimits, OnBrightMagenta, color) \o NL \o NL \o NL
        \o HumanizeSize(Text_InputSize, input_size_limit, input_size_limit, color) \o NL
        \o HumanizeSize(Text_OutputSize, output_size_limit, output_size_limit, color) \o NL
        \o HumanizeInstructions(Text_Instructions, instructions_size_limit,
                                instructions_size_limit, color) \o NL
        \o NL \o NL \o Colored(Text_BenchmarkResults, OnTrueColor, color) \o NL \o NL
        \o Text_Name \o r.name \o NL
        \o Text_LinearMemory \o Decimal(r.memory_usage) \o <<75, 66>> \o NL
        \o HumanizeInstructions(Text_Instructions, r.instructions,
                                instructions_size_limit, color) \o NL
        \o HumanizeSize(Text_InputSize, GetJsonSizeAsBytes(r.input), input_size_limit, color)
        \o NL
        \o HumanizeSize(Text_OutputSize, OutputSize(r.output), output_size_limit, color) \o NL
        \o Text_ModuleSize \o Decimal(r.size) \o <<75, 66>> \o NL \o NL

\* <FunctionRunResult as fmt::Display>::fmt
Display(r, color) ==
    DisplayHead(r, color) \o DisplayWarning(r, color) \o DisplayOutput(r, color)
    \o DisplayTail(r, color)

\* Lengths of logs around the limit
LogLengths ==
    {0, 1, FUNCTION_LOG_LIMIT - 1, FUNCTION_LOG_LIMIT, FUNCTION_LOG_LIMIT + 1,
     2 * FUNCTION_LOG_LIMIT}

\* Logs of one repeated byte, and logs that are the text of a warning
DisplayLogs ==
    {Rep(b, n) : b \in {97, 10}, n \in LogLengths}
    \cup {TruncationWarning(2 * FUNCTION_LOG_LIMIT),
          Colored(TruncationWarning(2 * FUNCTION_LOG_LIMIT), Red, TRUE)}

DisplayOutputs ==
    {JsonOutput(JObj(EmptyMap)), JsonOutput(JStr(<<97>>)),
     InvalidJsonOutput(<<101>>, <<120>>)}

\* 1.0, 2.5 and 10.0
DisplayScales == {1000, 2500, 10000}

DisplayResults ==
    {[name |-> <<102>>, size |-> 3, memory_usage |-> 1088, instructions |-> i,
      logs |-> logs, input |-> JObj(EmptyMap), output |-> output,
      scale_factor |-> factor, success |-> TRUE] :
        i \in {0, 1500, 27500001}, logs \in DisplayLogs, output \in DisplayOutputs,
        factor \in DisplayScales}

InitDisplay ==
    /\ HandlerIdle
    /\ TestIdle
    /\ CliIdle
    /\ EnforcingIdle
    /\ LogStreamIdle
    /\ AnalyzerIdle
    /\ ContainerIdle
    /\ RunIdle
    /\ ProviderIdle
    /\ ModuleIdle
    /\ LimiterIdle
    /\ HarnessIdle
    /\ d_result \in DisplayResults
    /\ d_color \in BOOLEAN
    /\ d_text = None

\* function_run_result.to_string()
DisplayFmt ==
    /\ d_text = None
    /\ d_text' = Some(Display(d_result, d_color))
    /\ UNCHANGED <<d_result, d_color, avars, cvars, rvars, pvars, mvars, lvars, hvars, svars, evars, gvars, tvars, kvars>>

NextDisplay ==
    \/ DisplayFmt

SpecDisplay == InitDisplay /\ [][NextDisplay]_vars

-----------------------------------------------------------------------------
(* Claims about the rendering *)

Rendered == IsSome(d_text)
Rendering == Unwrap(d_text)

\* C19 as stated: the rendering contains a line "Logs would be truncated in
\* production, length L > 1000 limit" iff the logs are longer than 1000 bytes,
\* and L is then the byte length of the logs.
C19_WarningLineIffOverLimit ==
    Rendered =>
        /\ Contains(Rendering, Text_Truncated) <=> Len(d_result.logs) > 1000
        /\ Len(d_result.logs) > 1000 =>
                Contains(Rendering, TruncationWarning(Len(d_result.logs)))

\* Where the Logs block ends: the two titles, the rendered input, the logs and
\* the line ends between them
AfterLogs ==
    Len(Colored(Text_Input, OnBrightYellow, d_color)) + 2
    + Len(ToStringPretty(d_result.input)) + 1
    + Len(Colored(Text_Logs, OnBrightBlue, d_color)) + 2 + Len(d_result.logs) + 2

\* C19, amended: Display writes the line "Logs would be truncated in
\* production, length L > 1000 limit", L the byte length of the logs, right
\* after the Logs block iff the logs are longer than 1000 bytes; with logs of
\* 1000 bytes or fewer the Logs block is followed by the output block.
C19_WarningWrittenIffOverLimit ==
    Rendered =>
        LET warning == Colored(TruncationWarning(Len(d_result.logs)), Red, d_color)
            output == DisplayOutput(d_result, d_color)
        IN  IF Len(d_result.logs) > 1000
            THEN StartsAt(Rendering, AfterLogs + 1, warning \o NL \o NL \o NL \o output)
            ELSE StartsAt(Rendering, AfterLogs + 1, output)

C19_Witness ==
    /\ Rendered
    /\ Len(d_result.logs) = 1001
    /\ Contains(Rendering, TruncationWarning(1001))
-----------------------------------------------------------------------------
(* LogStream *)

MaxCapacity == 3    \* largest capacity of a stream
MaxBuf == 2         \* longest buffer appended
MaxAppends == 3     \* most appends to one stream

\* a, and the two bytes of a two-byte character
BufBytes == {97, 195, 169}

Buffers == SeqsUpTo(BufBytes, MaxBuf)

\* "...[TRUNCATED]"
Text_TruncatedMark == <<46, 46, 46, 91, 84, 82, 85, 78, 67, 65, 84, 69, 68, 93>>

\* "...[TRUNCATED]".red().to_string()
Sentinel(color) == Colored(Text_TruncatedMark, Red, color)

\* str::is_char_boundary
IsCharBoundary(str, index) ==
    \/ index = 0
    \/ index = Len(str)
    \/ index < Len(str) /\ ~IsCont(str[index + 1])

RECURSIVE BackToBoundary(_, _)
BackToBoundary(str, max) ==
    IF IsCharBoundary(str, max) THEN max ELSE BackToBoundary(str, max - 1)

TruncateBelowMax(str, max) ==
    IF max > Len(str) THEN [truncated |-> FALSE, str |-> str]
    ELSE [truncated |-> TRUE, str |-> SubSeq(str, 1, BackToBoundary(str, max))]

\* truncate_to_char_boundary
TruncateToCharBoundary(str, max) ==
    IF max >= Len(str) THEN [truncated |-> FALSE, str |-> str]
    ELSE [truncated |-> TRUE, str |-> SubSeq(str, 1, BackToBoundary(str, max))]

\* LogStream::append: the stream after it, what it returns, and what became
\* of the message
LogStreamAppend(stream, buf, color) ==
    IF stream.current_bytesize > stream.capacity
    THEN [stream |-> stream, ret |-> [ok |-> TRUE, n |-> Len(buf)], stored |-> "dropped",
          kept |-> 0]
    ELSE IF buf = <<>>
    THEN [stream |-> stream, ret |-> [ok |-> TRUE, n |-> 0], stored |-> "empty", kept |-> 0]
    ELSE LET cut == TruncateToCharBoundary(Lossy(buf),
                                           stream.capacity - stream.current_bytesize)
             log == IF cut.truncated THEN cut.str \o Sentinel(color) ELSE cut.str
         IN  [stream |-> [logs |-> Append(stream.logs, log),
                          capacity |-> stream.capacity,
                          current_bytesize |-> stream.current_bytesize + Len(log)],
              ret |-> [ok |-> TRUE, n |-> Len(buf)],
              stored |-> IF cut.truncated THEN "truncated" ELSE "full",
              kept |-> Len(cut.str)]

\* LogStream::with_capacity
InitLogStream ==
    /\ HandlerIdle
    /\ TestIdle
    /\ CliIdle
    /\ EnforcingIdle
    /\ AnalyzerIdle
    /\ ContainerIdle
    /\ RunIdle
    /\ ProviderIdle
    /\ ModuleIdle
    /\ LimiterIdle
    /\ HarnessIdle
    /\ DisplayIdle
    /\ s_logs = <<>>
    /\ s_capacity \in 0..MaxCapacity
    /\ s_current_bytesize = 0
    /\ s_color \in BOOLEAN
    /\ s_last = None
    /\ s_kept = 0
    /\ s_sentinels = 0
    /\ s_frozen = None

LogStreamState ==
    [logs |-> s_logs, capacity |-> s_capacity, current_bytesize |-> s_current_bytesize]

\* stream.append(buf)
AppendBuf ==
    /\ (IF IsSome(s_last) THEN Unwrap(s_last).count ELSE 0) < MaxAppends
    /\ \E buf \in Buffers :
        LET r == LogStreamAppend(LogStreamState, buf, s_color)
        IN  /\ s_logs' = r.stream.logs
            /\ s_current_bytesize' = r.stream.current_bytesize
            /\ s_last' = Some([count |-> (IF IsSome(s_last) THEN Unwrap(s_last).count ELSE 0) + 1,
                               len |-> Len(buf),
                               text |-> Len(Lossy(buf)),
                               room |-> s_capacity - s_current_bytesize,
                               ret |-> r.ret,
                               stored |-> r.stored])
            /\ s_kept' = s_kept + r.kept
            /\ s_sentinels' = s_sentinels + (IF r.stored = "truncated" THEN 1 ELSE 0)
            /\ s_frozen' = IF r.stored = "truncated" THEN Some(r.stream.logs) ELSE s_frozen
    /\ UNCHANGED <<s_capacity, s_color, avars, cvars, rvars, pvars, mvars, lvars, hvars, dvars, evars, gvars, tvars, kvars>>

\* stream.to_string()
LogStreamDisplay(logs) == Flatten(logs)

NextLogStream ==
    \/ AppendBuf

SpecLogStream == InitLogStream /\ [][NextLogStream]_vars

-----------------------------------------------------------------------------
(* Claims about the LogStream *)

\* C20: after any appends to a stream of capacity C the guest text stored,
\* the sentinel aside, is at most C bytes; a message that exactly fills the
\* room left is stored in full without a sentinel; the sentinel is stored at
\* most once; and once it is stored no append changes the stream.
C20_BoundedLogStream ==
    /\ s_kept <= s_capacity
    /\ Len(LogStreamDisplay(s_logs)) = s_kept + s_sentinels * Len(Sentinel(s_color))
    /\ s_sentinels <= 1
    /\ (/\ IsSome(s_last)
        /\ Unwrap(s_last).len > 0
        /\ Unwrap(s_last).text = Unwrap(s_last).room) => Unwrap(s_last).stored = "full"
    /\ IsSome(s_frozen) => s_logs = Unwrap(s_frozen)

C20_Witness ==
    /\ s_capacity = 3
    /\ s_sentinels = 1
    /\ s_kept = 3
    /\ Len(s_logs) = 2
    /\ s_logs[2] = Sentinel(s_color)
    /\ IsSome(s_last)
    /\ Unwrap(s_last).stored = "dropped"

\* C24: append returns Ok with the number of bytes of the buffer passed in,
\* whether the message was stored, truncated or dropped, and returns an error
\* when the buffer is empty.
C24_AppendReturnsLengthOrError ==
    IsSome(s_last) =>
        IF Unwrap(s_last).len = 0
        THEN ~Unwrap(s_last).ret.ok
        ELSE Unwrap(s_last).ret = [ok |-> TRUE, n |-> Unwrap(s_last).len]

-----------------------------------------------------------------------------
(* The limit-enforcing MemoryLimiter of memory_limiter.rs *)

\* Limits in bytes: none, just below a page, a page, between one and two pages
MemoryLimits == {0, 65535, 65536, 100000}

TableSizes == 0..MaxPages

EnforcingMemoryGrowingByDesired(limit, current, desired, maximum) ==
    ~(desired > limit)

\* MemoryLimiter::memory_growing
EnforcingMemoryGrowing(limit, current, desired, maximum) ==
    IF current > limit THEN FALSE ELSE TRUE

\* MemoryLimiter::table_growing
EnforcingTableGrowing(limit, current, desired, maximum) == TRUE

\* MemoryLimiter::new
InitEnforcing ==
    /\ HandlerIdle
    /\ TestIdle
    /\ CliIdle
    /\ AnalyzerIdle
    /\ ContainerIdle
    /\ RunIdle
    /\ ProviderIdle
    /\ ModuleIdle
    /\ LimiterIdle
    /\ HarnessIdle
    /\ DisplayIdle
    /\ LogStreamIdle
    /\ e_limit \in MemoryLimits
    /\ e_current = 0
    /\ e_asked = None
    /\ e_answer = None

\* The store asks before a memory is created or grown; the memory takes the
\* desired size when the limiter agrees and the declared maximum allows it.
EnforcingMemoryGrow ==
    /\ \E desired \in MemorySizes, maximum \in Maximums :
        /\ desired >= e_current
        /\ e_asked' = Some([kind |-> "memory", current |-> e_current,
                            desired |-> desired, maximum |-> maximum])
        /\ e_answer' = Some(EnforcingMemoryGrowing(e_limit, e_current, desired, maximum))
        /\ e_current' = IF /\ EnforcingMemoryGrowing(e_limit, e_current, desired, maximum)
                           /\ (IsSome(maximum) => desired <= Unwrap(maximum))
                        THEN desired ELSE e_current
    /\ UNCHANGED <<e_limit, avars, cvars, rvars, pvars, mvars, lvars, hvars, dvars, svars, gvars, tvars, kvars>>

\* The store asks before a table is created or grown.
EnforcingTableGrow ==
    /\ \E current \in TableSizes, desired \in TableSizes, maximum \in {None, Some(1)} :
        /\ desired >= current
        /\ e_asked' = Some([kind |-> "table", current |-> current,
                            desired |-> desired, maximum |-> maximum])
        /\ e_answer' = Some(EnforcingTableGrowing(e_limit, current, desired, maximum))
    /\ UNCHANGED <<e_limit, e_current, avars, cvars, rvars, pvars, mvars, lvars, hvars, dvars, svars, gvars, tvars, kvars>>

NextEnforcing ==
    \/ EnforcingMemoryGrow
    \/ EnforcingTableGrow

SpecEnforcing == InitEnforcing /\ [][NextEnforcing]_vars

-----------------------------------------------------------------------------
(* Claims about the limit-enforcing MemoryLimiter *)

\* C29: with limit L the limiter refuses a memory growth exactly when the
\* current size is already greater than L, whatever the desired size: a
\* request from a current size <= L to a desired size > L is granted; and a
\* table growth is always granted.
C29_RefusesOnlyAboveLimit ==
    IsSome(e_asked) =>
        /\ Unwrap(e_asked).kind = "memory" =>
                (Unwrap(e_answer) = FALSE <=> Unwrap(e_asked).current > e_limit)
        /\ Unwrap(e_asked).kind = "table" => Unwrap(e_answer) = TRUE

C29_Witness ==
    /\ IsSome(e_asked)
    /\ Unwrap(e_asked).kind = "memory"
    /\ Unwrap(e_asked).current <= e_limit
    /\ Unwrap(e_asked).current > 0
    /\ Unwrap(e_asked).desired > e_limit
    /\ Unwrap(e_answer) = TRUE
    /\ e_current > e_limit

-----------------------------------------------------------------------------
(* The run command of main.rs *)

DEFAULT_SCALE_FACTOR == 1000

\* What a file named in the options gives: nothing (no such option), an error
\* on reading, or its text
Unreadable == [ok |-> FALSE, valid |-> FALSE, events |-> <<>>]
Unparsable == [ok |-> TRUE, valid |-> FALSE, events |-> <<>>]
Document(events) == [ok |-> TRUE, valid |-> TRUE, events |-> events]

\* read_schema_to_string(): Option<Result<String>>
CliSchemas == {None, Some(Unreadable), Some(Unparsable), Some(Document(<<>>))}

\* read_query_to_string(): the queries { a }, with rate 6.0 and without one, and { a { a } }
CliQueries ==
    {None, Some(Unreadable), Some(Unparsable), Some(Document(Single(Some(6000)))),
     Some(Document(Single(None))), Some(Document(Nested(None, Some(500))))}

\* --input or the piped stdin: {"a":"aa"}, { } and {
CliInputs ==
    {None, Some([ok |-> FALSE, bytes |-> <<>>]),
     Some([ok |-> TRUE, bytes |-> ToVec(JObj(MapOf(KeyA, JStr(<<97, 97>>))))]),
     Some([ok |-> TRUE, bytes |-> <<123, 32, 125>>]),
     Some([ok |-> TRUE, bytes |-> <<123>>])}

CliCodecs == {"Json", "Raw", "JsonToMessagepack"}

CliOpts ==
    [input : CliInputs, schema : CliSchemas, query : CliQueries, codec : CliCodecs,
     json : BOOLEAN, profile : BOOLEAN]

\* Result<()> of run
Done == [ok |-> TRUE, msg |-> ""]
Failed(msg) == [ok |-> FALSE, msg |-> msg]

\* The exit status main gives a Result<()>, with the error written to stderr
ExitStatus(result) ==
    IF result.ok THEN [code |-> 0, stderr |-> ""] ELSE [code |-> 1, stderr |-> result.msg]

\* match opts.common_opts.codec: (json_value, buffer), or the error
DecodeInput(codec, buffer) ==
    IF codec = "Raw" THEN [ok |-> TRUE, json_value |-> None, buffer |-> buffer]
    ELSE LET json == FromSlice(buffer)
         IN  IF ~json.ok THEN [ok |-> FALSE, json_value |-> None, buffer |-> <<>>]
             ELSE [ok |-> TRUE, json_value |-> Some(json.val),
                   buffer |-> IF codec = "Json" THEN ToVec(json.val) ELSE MpEncode(json.val)]

\* BluejaySchemaAnalyzer::analyze_schema_definition
AnalyzeSchemaDefinition(schema_string, query_string, json_value) ==
    IF ~schema_string.valid \/ ~query_string.valid THEN [ok |-> FALSE, scale |-> 0]
    ELSE [ok |-> TRUE, scale |-> Analyze(query_string.events, json_value)]

ScaleFactorWithoutInput(schema_string, query_string, json_value) ==
    IF IsSome(schema_string) /\ IsSome(query_string)
    THEN [analyzed |-> TRUE,
          result |-> AnalyzeSchemaDefinition(Unwrap(schema_string), Unwrap(query_string),
                                             IF IsSome(json_value) THEN Unwrap(json_value)
                                             ELSE JNull)]
    ELSE [analyzed |-> FALSE, result |-> [ok |-> TRUE, scale |-> DEFAULT_SCALE_FACTOR]]

\* let scale_factor = if let (Some(..), Some(..), Some(..)) = .. { analyze(..)? } else { DEFAULT }
ScaleFactor(schema_string, query_string, json_value) ==
    IF IsSome(schema_string) /\ IsSome(query_string) /\ IsSome(json_value)
    THEN [analyzed |-> TRUE,
          result |-> AnalyzeSchemaDefinition(Unwrap(schema_string), Unwrap(query_string),
                                             Unwrap(json_value))]
    ELSE [analyzed |-> FALSE, result |-> [ok |-> TRUE, scale |-> DEFAULT_SCALE_FACTOR]]

\* "module exited with code: 1"
Text_Exited1 ==
    <<109, 111, 100, 117, 108, 101, 32, 101, 120, 105, 116, 101, 100, 32, 119, 105, 116,
      104, 32, 99, 111, 100, 101, 58, 32, 49>>

\* What engine_run can return for the input: a run that succeeded, or one whose
\* guest failed
EngineResults(json_value, scale_factor) ==
    {[name |-> <<102>>, size |-> 3, memory_usage |-> 1088, instructions |-> 1500,
      logs |-> IF success THEN <<>> ELSE Text_Exited1,
      input |-> IF IsSome(json_value) THEN Unwrap(json_value) ELSE JNull,
      output |-> IF success THEN JsonOutput(JObj(EmptyMap))
                 ELSE InvalidJsonOutput(<<69, 79, 70>>, <<>>),
      scale_factor |-> scale_factor, success |-> success] : success \in BOOLEAN}

\* FunctionRunResult::to_json: the members serialized (profile and scale_factor
\* are skipped)
ToJson(r) ==
    [name |-> r.name, size |-> r.size, memory_usage |-> r.memory_usage,
     instructions |-> r.instructions, logs |-> r.logs, input |-> r.input,
     output |-> r.output, success |-> r.success]

\* println!("{}", function_run_result.to_json()) or println!("{function_run_result}")
Printed(r, json, color) ==
    IF json THEN [json |-> TRUE, members |-> ToJson(r), text |-> <<>>]
    ELSE [json |-> FALSE, members |-> <<>>, text |-> Display(r, color) \o NL]

InitCli ==
    /\ HandlerIdle
    /\ TestIdle
    /\ AnalyzerIdle
    /\ ContainerIdle
    /\ RunIdle
    /\ ProviderIdle
    /\ ModuleIdle
    /\ LimiterIdle
    /\ HarnessIdle
    /\ DisplayIdle
    /\ LogStreamIdle
    /\ EnforcingIdle
    /\ g_pc = "start"
    /\ g_opts \in CliOpts
    /\ g_color \in BOOLEAN
    /\ g_json_value = None
    /\ g_buffer = <<>>
    /\ g_analyzed = FALSE
    /\ g_scale = None
    /\ g_result = None
    /\ g_stdout = None
    /\ g_exit = None

CliFail(msg) ==
    /\ g_pc' = "done"
    /\ g_exit' = Some(ExitStatus(Failed(msg)))

\* run, up to the scale factor: read the input, the schema and the query,
\* decode the input, and analyze
CliPrepare ==
    /\ g_pc = "start"
    /\ LET decoded == DecodeInput(g_opts.codec, Unwrap(g_opts.input).bytes)
           factor == ScaleFactor(g_opts.schema, g_opts.query, decoded.json_value)
       IN  IF ~IsSome(g_opts.input)
           THEN /\ CliFail("You must provide input via the --input flag or piped via stdin.")
                /\ UNCHANGED <<g_json_value, g_buffer, g_analyzed, g_scale>>
           ELSE IF ~Unwrap(g_opts.input).ok
           THEN /\ CliFail("Couldn't load input")
                /\ UNCHANGED <<g_json_value, g_buffer, g_analyzed, g_scale>>
           ELSE IF IsSome(g_opts.schema) /\ ~Unwrap(g_opts.schema).ok
           THEN /\ CliFail("Couldn't read file")
                /\ UNCHANGED <<g_json_value, g_buffer, g_analyzed, g_scale>>
           ELSE IF IsSome(g_opts.query) /\ ~Unwrap(g_opts.query).ok
           THEN /\ CliFail("Couldn't read file")
                /\ UNCHANGED <<g_json_value, g_buffer, g_analyzed, g_scale>>
           ELSE IF ~decoded.ok
           THEN /\ CliFail("Invalid input JSON")
                /\ UNCHANGED <<g_json_value, g_buffer, g_analyzed, g_scale>>
           ELSE /\ g_json_value' = decoded.json_value
                /\ g_buffer' = decoded.buffer
                /\ g_analyzed' = factor.analyzed
                /\ IF factor.result.ok
                   THEN /\ g_scale' = Some(factor.result.scale)
                        /\ g_pc' = "prepared"
                        /\ g_exit' = g_exit
                   ELSE /\ g_scale' = g_scale
                        /\ CliFail("Unable to analyze scale limits")
    /\ UNCHANGED <<g_opts, g_color, g_result, g_stdout, avars, cvars, rvars, pvars, mvars, lvars, hvars, dvars, svars, evars, tvars, kvars>>

\* engine_run(FunctionRunParams { .. })?
CliEngineRun ==
    /\ g_pc = "prepared"
    /\ \/ /\ \E r \in EngineResults(g_json_value, Unwrap(g_scale)) : g_result' = Some(r)
          /\ g_pc' = "ran"
          /\ g_exit' = g_exit
       \/ /\ CliFail("failed to find function export")
          /\ g_result' = g_result
    /\ UNCHANGED <<g_opts, g_color, g_json_value, g_buffer, g_analyzed, g_scale, g_stdout, avars, cvars, rvars, pvars, mvars, lvars, hvars, dvars, svars, evars, tvars, kvars>>

\* The result is printed, as JSON or as text
CliPrint ==
    /\ g_pc = "ran"
    /\ g_stdout' = Some(Printed(Unwrap(g_result), g_opts.json, g_color))
    /\ g_pc' = "printed"
    /\ UNCHANGED <<g_opts, g_color, g_json_value, g_buffer, g_analyzed, g_scale, g_result, g_exit, avars, cvars, rvars, pvars, mvars, lvars, hvars, dvars, svars, evars, tvars, kvars>>

\* The profile, if there is one, is written, and run returns Ok(())
CliReturn ==
    /\ g_pc = "printed"
    /\ g_pc' = "done"
    /\ \/ g_exit' = Some(ExitStatus(Done))
       \/ /\ g_opts.profile
          /\ g_exit' = Some(ExitStatus(Failed("failed to write the profile")))
    /\ UNCHANGED <<g_opts, g_color, g_json_value, g_buffer, g_analyzed, g_scale, g_result, g_stdout, avars, cvars, rvars, pvars, mvars, lvars, hvars, dvars, svars, evars, tvars, kvars>>

NextCli ==
    \/ CliPrepare
    \/ CliEngineRun
    \/ CliPrint
    \/ CliReturn

SpecCli == InitCli /\ [][NextCli]_vars

-----------------------------------------------------------------------------
(* Claims about the run command *)

CliDone == g_pc = "done"

\* C21: the run command exits with a nonzero status whenever the result it
\* obtained has success = false, reporting that the function execution failed
\* after printing the result, and exits with status zero when success = true
\* (and the profile, if any, could be written).
C21_ExitStatusFollowsSuccess ==
    (CliDone /\ IsSome(g_result)) =>
        IF Unwrap(g_result).success
        THEN Unwrap(g_exit).stderr = "" => Unwrap(g_exit).code = 0
        ELSE /\ IsSome(g_stdout)
             /\ Unwrap(g_exit).code # 0
             /\ Unwrap(g_exit).stderr =
                    "The Function execution failed. Review the logs for more information."

AllPresent == IsSome(g_opts.schema) /\ IsSome(g_opts.query) /\ IsSome(g_json_value)

\* The limits block of a rendering with the default limits.
DefaultLimitsShown(text, color) ==
    /\ Contains(text, NL \o HumanizeSize(Text_InputSize, 128000, 128000, color) \o NL)
    /\ Contains(text, NL \o HumanizeSize(Text_OutputSize, 20000, 20000, color) \o NL)
    /\ Contains(text, NL \o HumanizeInstructions(Text_Instructions, 11000000, 11000000, color)
                      \o NL)

\* C22: the scale factor handed to the engine is the analyzer's result only
\* when a schema, a query and a JSON-decoded input are all present; if one is
\* missing (also with the Raw codec) the analyzer is not called, the scale
\* factor is exactly 1.0 and the limits displayed are the defaults.
C22_ScaleFactorNeedsAllThree ==
    /\ g_analyzed => AllPresent
    /\ IsSome(g_scale) =>
        IF AllPresent
        THEN /\ g_analyzed
             /\ Unwrap(g_scale) = Analyze(Unwrap(g_opts.query).events, Unwrap(g_json_value))
        ELSE /\ ~g_analyzed
             /\ Unwrap(g_scale) = 1000
             /\ IsSome(g_result) => Unwrap(g_result).scale_factor = 1000
             /\ (IsSome(g_stdout) /\ ~Unwrap(g_stdout).json) =>
                    DefaultLimitsShown(Unwrap(g_stdout).text, g_color)

C22_Witness ==
    /\ CliDone
    /\ g_opts.codec = "Raw"
    /\ g_opts.schema = Some(Document(<<>>))
    /\ g_opts.query = Some(Document(Single(Some(6000))))
    /\ g_opts.input = Some([ok |-> TRUE, bytes |-> ToVec(JObj(MapOf(KeyA, JStr(<<97, 97>>))))])
    /\ ~g_analyzed
    /\ g_scale = Some(1000)
    /\ IsSome(g_stdout)
    /\ ~Unwrap(g_stdout).json
    /\ DefaultLimitsShown(Unwrap(g_stdout).text, g_color)

-----------------------------------------------------------------------------
(* The test command of main.rs and the TestReport *)

MaxCases == 3       \* most test cases in the input directory

\* What the expected-output file of a case holds: nothing readable, no JSON,
\* or a JSON value
ExpectedOutputs ==
    {[ok |-> FALSE, bytes |-> <<>>], [ok |-> TRUE, bytes |-> <<123>>],
     [ok |-> TRUE, bytes |-> ToStringPretty(JObj(MapOf(KeyA, JNum(1))))]}

\* What engine_run returns for a case: an error, or a result whose output is
\* the expected value, another value, or no JSON
CaseRuns ==
    {[ok |-> FALSE, output |-> JsonOutput(JNull), success |-> FALSE],
     [ok |-> TRUE, output |-> JsonOutput(JObj(MapOf(KeyA, JNum(1)))), success |-> TRUE],
     [ok |-> TRUE, output |-> JsonOutput(JObj(MapOf(KeyA, JNum(1)))), success |-> FALSE],
     [ok |-> TRUE, output |-> JsonOutput(JObj(EmptyMap)), success |-> TRUE],
     [ok |-> TRUE, output |-> InvalidJsonOutput(<<69, 79, 70>>, <<97>>), success |-> FALSE]}

TestCases == [expected : ExpectedOutputs, run : CaseRuns]

TestOptions ==
    [input_is_dir : BOOLEAN, output_is_dir : BOOLEAN, codec : CliCodecs,
     cases : 0..MaxCases]

\* TestReport::default
DefaultTestReport == [successes |-> 0, failures |-> <<>>]

\* TestReport::add_success
AddSuccess(report) == [report EXCEPT !.successes = @ + 1]

\* TestReport::add_failure
AddFailure(report, expected_output, run_result) ==
    [report EXCEPT !.failures = Append(@, [expected_output |-> expected_output,
                                           run_result |-> run_result])]

IntoResultOkWhenAnyPassed(report) ==
    [ok |-> report.successes > 0, passed |-> report.successes,
     failed |-> Len(report.failures)]

\* TestReport::into_result: the result, with the counts of the line printed
IntoResult(report) ==
    [ok |-> report.failures = <<>>, passed |-> report.successes,
     failed |-> Len(report.failures)]

\* match &function_run_result.output: the report after the case
ReportCase(report, output, run_result) ==
    IF run_result.output.json
    THEN IF run_result.output.value # output
         THEN AddFailure(report, output, run_result)
         ELSE AddSuccess(report)
    ELSE AddFailure(report, output, run_result)

\* The call ReportCase makes.
CallOf(before, after) ==
    IF after.successes = before.successes + 1 /\ after.failures = before.failures
    THEN "add_success"
    ELSE IF after.successes = before.successes
            /\ Len(after.failures) = Len(before.failures) + 1
    THEN "add_failure"
    ELSE "other"

TestReportState == [successes |-> t_successes, failures |-> t_failures]

InitTest ==
    /\ HandlerIdle
    /\ AnalyzerIdle
    /\ ContainerIdle
    /\ RunIdle
    /\ ProviderIdle
    /\ ModuleIdle
    /\ LimiterIdle
    /\ HarnessIdle
    /\ DisplayIdle
    /\ LogStreamIdle
    /\ EnforcingIdle
    /\ CliIdle
    /\ t_pc = "start"
    /\ t_opts \in TestOptions
    /\ t_todo = 0
    /\ t_successes = 0
    /\ t_failures = <<>>
    /\ t_calls = <<>>
    /\ t_result = None

TestFail(msg) ==
    /\ t_pc' = "done"
    /\ t_result' = Some([ok |-> FALSE, msg |-> msg, passed |-> 0, failed |-> 0,
                         reported |-> FALSE])

\* test, up to the loop over the cases
TestStart ==
    /\ t_pc = "start"
    /\ IF ~t_opts.input_is_dir
       THEN TestFail("Input path must be a directory") /\ t_todo' = t_todo
       ELSE IF ~t_opts.output_is_dir
       THEN TestFail("Output path must be a directory") /\ t_todo' = t_todo
       ELSE IF t_opts.codec # "Json"
       THEN TestFail("Only JSON codec is supported for testing") /\ t_todo' = t_todo
       ELSE IF t_opts.cases = 0
       THEN TestFail("No test files found") /\ t_todo' = t_todo
       ELSE /\ t_pc' = "running"
            /\ t_todo' = t_opts.cases
            /\ t_result' = t_result
    /\ UNCHANGED <<t_opts, t_successes, t_failures, t_calls, avars, cvars, rvars, pvars, mvars, lvars, hvars, dvars, svars, evars, gvars, kvars>>

\* One turn of the try_for_each: read the expected output, run the function,
\* compare
TestCase ==
    /\ t_pc = "running"
    /\ t_todo > 0
    /\ \E case \in TestCases :
       LET output == FromSlice(case.expected.bytes)
           report == ReportCase(TestReportState, output.val, case.run)
       IN  IF ~case.expected.ok
           THEN /\ TestFail("Couldn't open file")
                /\ UNCHANGED <<t_successes, t_failures, t_calls>>
           ELSE IF ~output.ok
           THEN /\ TestFail("Invalid output JSON")
                /\ UNCHANGED <<t_successes, t_failures, t_calls>>
           ELSE IF ~case.run.ok
           THEN /\ TestFail("engine_run failed")
                /\ UNCHANGED <<t_successes, t_failures, t_calls>>
           ELSE /\ t_successes' = report.successes
                /\ t_failures' = report.failures
                /\ t_calls' = Append(t_calls, [call |-> CallOf(TestReportState, report),
                                               case |-> case])
                /\ t_pc' = IF t_todo = 1 THEN "reporting" ELSE "running"
                /\ t_result' = t_result
    /\ t_todo' = t_todo - 1
    /\ UNCHANGED <<t_opts, avars, cvars, rvars, pvars, mvars, lvars, hvars, dvars, svars, evars, gvars, kvars>>

\* report.into_result()
TestIntoResult ==
    /\ t_pc = "reporting"
    /\ LET r == IntoResult(TestReportState)
       IN  t_result' = Some([ok |-> r.ok, msg |-> IF r.ok THEN "" ELSE "test failed",
                             passed |-> r.passed, failed |-> r.failed, reported |-> TRUE])
    /\ t_pc' = "done"
    /\ UNCHANGED <<t_opts, t_todo, t_successes, t_failures, t_calls, avars, cvars, rvars, pvars, mvars, lvars, hvars, dvars, svars, evars, gvars, kvars>>

NextTest ==
    \/ TestStart
    \/ TestCase
    \/ TestIntoResult

SpecTest == InitTest /\ [][NextTest]_vars

-----------------------------------------------------------------------------
(* Claims about the TestReport *)

CallsOf(name) == Cardinality({i \in 1..Len(t_calls) : t_calls[i].call = name})

\* The expected value of a case that was run.
ExpectedOf(case) == FromSlice(case.expected.bytes).val

\* C30: after any sequence of add_success and add_failure calls into_result
\* returns Ok iff add_failure was never called, and the counts it reports are
\* the numbers of the calls; in the test command every test case that was run
\* adds exactly one entry: a failure when the output is no JSON or differs from
\* the expected JSON, a success otherwise.
C30_ReportCountsCalls ==
    /\ t_successes = CallsOf("add_success")
    /\ Len(t_failures) = CallsOf("add_failure")
    /\ \A i \in 1..Len(t_calls) :
            /\ t_calls[i].case.run.ok
            /\ t_calls[i].call =
                   IF \/ ~t_calls[i].case.run.output.json
                      \/ t_calls[i].case.run.output.value # ExpectedOf(t_calls[i].case)
                   THEN "add_failure" ELSE "add_success"
    /\ (t_pc \in {"running", "reporting"}) =>
            Len(t_calls) = t_opts.cases - t_todo
    /\ (IsSome(t_result) /\ Unwrap(t_result).reported) =>
            /\ Len(t_calls) = t_opts.cases
            /\ Unwrap(t_result).ok <=> CallsOf("add_failure") = 0
            /\ Unwrap(t_result).passed = CallsOf("add_success")
            /\ Unwrap(t_result).failed = CallsOf("add_failure")

C30_Witness ==
    /\ IsSome(t_result)
    /\ Unwrap(t_result).reported
    /\ ~Unwrap(t_result).ok
    /\ Unwrap(t_result).passed = 2
    /\ Unwrap(t_result).failed = 1
    /\ t_calls[1].call = "add_success"
    /\ t_calls[2].call = "add_failure"
    /\ t_calls[2].case.run.output.json

-----------------------------------------------------------------------------
(* IOHandler: new, initialize, finalize *)

\* The orders in which a HashSet of names can be iterated
Orders(S) ==
    {order \in [1..Cardinality(S) -> S] :
        \A i, j \in 1..Cardinality(S) : order[i] = order[j] => i = j}

\* module.imports().map(|i| i.module().to_string()).collect::<HashSet<_>>()
ImportedModules(imports) == {imports[i] : i \in 1..Len(imports)}

\* instantiate_imports: every imported module the catalog holds is instantiated
\* and linked; the instance returned is the last memory-I/O one (import_modules
\* of engine.rs is the same loop without the instance)
RECURSIVE InstantiateImports(_, _, _)
InstantiateImports(catalog, order, acc) ==
    IF order = <<>> THEN acc
    ELSE InstantiateImports(catalog, Tail(order),
            IF StandardProvidersGet(catalog, Head(order))
            THEN [linked |-> Append(acc.linked, Head(order)),
                  mem_io_instance |-> IF IoIsMemIoProvider(Head(order))
                                      THEN Some(Head(order)) ELSE acc.mem_io_instance]
            ELSE acc)

NothingLinked == [linked |-> <<>>, mem_io_instance |-> None]

InitHandler ==
    /\ AnalyzerIdle
    /\ ContainerIdle
    /\ RunIdle
    /\ ProviderIdle
    /\ ModuleIdle
    /\ LimiterIdle
    /\ HarnessIdle
    /\ DisplayIdle
    /\ LogStreamIdle
    /\ EnforcingIdle
    /\ CliIdle
    /\ TestIdle
    /\ k_pc = "module"
    /\ k_catalog \in Catalogs
    /\ k_imports \in ImportLists
    /\ k_std_import = None
    /\ k_strategy = "Wasi"
    /\ k_instance = None
    /\ k_linked = <<>>
    /\ k_initialize = None
    /\ k_finalize = None

\* ValidatedModule::new(module)
HandlerValidate ==
    /\ k_pc = "module"
    /\ LET validated == ValidatedModuleNew(k_catalog, k_imports)
       IN  /\ k_std_import' = validated.std_import
           /\ k_pc' = IF validated.ok THEN "validated" ELSE "done"
    /\ UNCHANGED <<k_catalog, k_imports, k_strategy, k_instance, k_linked, k_initialize, k_finalize, avars, cvars, rvars, pvars, mvars, lvars, hvars, dvars, svars, evars, gvars, tvars>>

\* IOHandler::new(module, input)
HandlerNew ==
    /\ k_pc = "validated"
    /\ k_strategy' = IOHandlerNew(k_imports)
    /\ k_pc' = "created"
    /\ UNCHANGED <<k_catalog, k_imports, k_std_import, k_instance, k_linked, k_initialize, k_finalize, avars, cvars, rvars, pvars, mvars, lvars, hvars, dvars, svars, evars, gvars, tvars>>

\* IOHandler::initialize: the imports are instantiated; the provider's
\* initialize is called and the input written when there is an instance
HandlerInitialize ==
    /\ k_pc = "created"
    /\ \E order \in Orders(ImportedModules(k_imports)), fails \in BOOLEAN :
        LET r == InstantiateImports(k_catalog, order, NothingLinked)
        IN  /\ fails => IsSome(r.mem_io_instance)
            /\ k_linked' = r.linked
            /\ k_instance' = IF k_strategy = "Memory" THEN r.mem_io_instance ELSE k_instance
            /\ k_initialize' = Some([ok |-> ~fails])
            /\ k_pc' = IF fails THEN "done" ELSE "initialized"
    /\ UNCHANGED <<k_catalog, k_imports, k_std_import, k_strategy, k_finalize, avars, cvars, rvars, pvars, mvars, lvars, hvars, dvars, svars, evars, gvars, tvars>>

\* IOHandler::finalize: the Memory arm expects the instance
HandlerFinalize ==
    /\ k_pc = "initialized"
    /\ IF k_strategy = "Memory" /\ ~IsSome(k_instance)
       THEN k_finalize' = Some("panic")
       ELSE k_finalize' \in {Some("ok"), Some("err")}
    /\ k_strategy = "Wasi" => k_finalize' = Some("ok")
    /\ k_pc' = "done"
    /\ UNCHANGED <<k_catalog, k_imports, k_std_import, k_strategy, k_instance, k_linked, k_initialize, avars, cvars, rvars, pvars, mvars, lvars, hvars, dvars, svars, evars, gvars, tvars>>

NextHandler ==
    \/ HandlerValidate
    \/ HandlerNew
    \/ HandlerInitialize
    \/ HandlerFinalize

SpecHandler == InitHandler /\ [][NextHandler]_vars

-----------------------------------------------------------------------------
(* Claims about the IOHandler *)

\* C23: at most one provider is resolved, instantiated and linked per run: the
\* first import, in first-seen order, that the catalog holds; no further
\* import the catalog holds is instantiated or linked.
C23_AtMostOneProviderLinked ==
    IsSome(k_initialize) =>
        /\ Len(k_linked) <= 1
        /\ k_linked = (IF IsSome(k_std_import) THEN <<Unwrap(k_std_import)>> ELSE <<>>)

\* C28: whenever new selects the Memory strategy, a successful initialize
\* leaves the handler holding a provider instance, and finalize does not reach
\* its panic, whatever the import names are.
C28_MemoryStrategyHoldsInstance ==
    /\ (k_strategy = "Memory" /\ IsSome(k_initialize) /\ Unwrap(k_initialize).ok) =>
            IsSome(k_instance)
    /\ k_finalize # Some("panic")

=============================================================================
